---- MODULE Spec2Model ----
(***************************************************************************)
(* Model of the EVVM signature-constructor bot: the per-user session       *)
(* store, the step-by-step operation state machine driven by text messages *)
(* and inline-keyboard buttons, nonce selection, message building and      *)
(* typed-data signing.                                                     *)
(*                                                                         *)
(* JavaScript values are represented as follows.                           *)
(*   - null and undefined are the strings Null and Undefined;              *)
(*   - an object used as a field bag (operationData) is a function whose   *)
(*     DOMAIN is the set of keys that are present; {} is EmptyObj;         *)
(*   - session.wallet is a record; wallet = null is NoWallet;              *)
(*   - a decimal number is an integer count of thousandths (1.5 = 1500),   *)
(*     NaN is the value NaN;                                               *)
(*   - a thrown exception is a result record with ok = FALSE.              *)
(***************************************************************************)
EXTENDS Integers, Sequences, FiniteSets, TLC

VARIABLES
    userSessions,   \* sessionUtils.js: Map userId -> session
    now,            \* Date.now()
    last,           \* what the last handler received, replied and called
    pending,        \* the handlers suspended at an await, with what they resume
    rateLimiter     \* messageHandlers.js: Map key -> timestamps of the calls let through

vars == <<userSessions, now, last, pending, rateLimiter>>

-----------------------------------------------------------------------------
(* Bounds *)

MaxLedgerNonce == 2
MaxTime == 2
MaxPending == 1

Users == {1}
\* the users of the runs with more than one session
Chatters == {1, 2}
RecipientCounts == {2}

-----------------------------------------------------------------------------
(* JavaScript values *)

Null == "null"
Undefined == "undefined"
NaN == 0 - 999999
EmptyObj == [k \in {} |-> Undefined]

Has(obj, k) == k \in DOMAIN obj
Get(obj, k) == IF k \in DOMAIN obj THEN obj[k] ELSE Undefined
Put(obj, k, v) == [x \in (DOMAIN obj) \cup {k} |-> IF x = k THEN v ELSE obj[x]]
\* { ...a, ...b }
Spread(a, b) == [x \in (DOMAIN a) \cup (DOMAIN b) |-> IF x \in DOMAIN b THEN b[x] ELSE a[x]]

Ok(v) == [ok |-> TRUE, val |-> v]
Err(e) == [ok |-> FALSE, err |-> e]

-----------------------------------------------------------------------------
(* Text inputs a user can send, and what the JavaScript built-ins and      *)
(* ethers make of them.                                                    *)

AddrA == "0xaaaaaaaaaaaaaaaaaaaaaaaaaaaaaaaaaaaaaaaa"
ZeroAddress == "0x0000000000000000000000000000000000000000"
PrivKey == "0x1111111111111111111111111111111111111111111111111111111111111111"
NoText == "<msg.text undefined>"

Texts == {AddrA, PrivKey, "bob_123", " 1.5 ", "0", "-1", " ", NoText}

IsString(t) == t # NoText

\* String.prototype.trim; calling it on undefined throws a TypeError
Trim(t) ==
    CASE t = " 1.5 " -> "1.5"
      [] t = " " -> ""
      [] t = "Alice " -> "Alice"
      [] OTHER -> t

\* String.prototype.toLowerCase
ToLowerCase(t) ==
    CASE t \in {"Alice", "ALICE"} -> "alice"
      [] t = "Alice " -> "alice "
      [] t = "Stake" -> "stake"
      [] t = "HIGH" -> "high"
      [] OTHER -> t

\* parseFloat, in thousandths
ParseFloat(t) ==
    CASE t \in {"1.5", " 1.5 "} -> 1500
      [] t = "1" -> 1000
      [] t = "0.01" -> 10
      [] t = "0" -> 0
      [] t = "-1" -> -1000
      [] t \in {AddrA, ZeroAddress, PrivKey} -> 0    \* stops at the "x" of "0x..."
      [] OTHER -> NaN

\* the value of a long hexadecimal literal: some large positive integer
HexValue == 2^30

\* parseInt without a radix: a decimal prefix, or a whole 0x literal
ParseInt(t) ==
    CASE t \in {"1.5", " 1.5 ", "1"} -> 1
      [] t \in {"0", "0.01"} -> 0
      [] t = "-1" -> -1
      [] t = ZeroAddress -> 0
      [] t \in {AddrA, PrivKey} -> HexValue
      [] OTHER -> NaN

\* the texts BigInt(text) accepts: decimal integers and 0x literals
IsIntegerLiteral(t) == t \in {"0", "-1", AddrA, ZeroAddress, PrivKey}

\* ethers.isAddress
EthersIsAddress(t) == t \in {AddrA, ZeroAddress}

\* /^[a-zA-Z0-9_]{3,20}$/
MatchesUsernameRegex(t) == t \in {"bob_123"}

\* /^[0-9a-fA-F]{64}$/ on the text without its 0x prefix, then new ethers.Wallet
MatchesPrivateKey(t) == t = PrivKey

\* new ethers.Wallet(privateKey).address
AddressOf(key) == IF key = PrivKey THEN "0xSIGNER" ELSE Undefined

-----------------------------------------------------------------------------
(* utils/sessionUtils.js *)

NoWallet == [connected |-> FALSE, address |-> Null, privateKey |-> Null]

createUserSession ==
    [ wallet |-> NoWallet,
      network |-> "ethereum",
      currentOperation |-> Null,
      operationData |-> EmptyObj,
      lastActivity |-> now,
      evvmContractAddress |-> Undefined,
      signatureData |-> <<>> ]     \* <<>>: the property is absent

HasSession(u) == u \in DOMAIN userSessions

\* getUserSession returns the stored session with lastActivity refreshed
getUserSession(u) == [userSessions[u] EXCEPT !.lastActivity = now]

updateUserSession(s, updates) ==
    [k \in DOMAIN s |-> IF k \in DOMAIN updates THEN updates[k] ELSE s[k]]

setWalletWithPrivateKey(s, walletData) ==
    [s EXCEPT !.wallet = [connected |-> TRUE,
                          address |-> walletData.address,
                          privateKey |-> walletData.privateKey]]

\* a start that lays the new data over the fields already in the bag
setOperationOverFields(s, operation, data) ==
    [s EXCEPT !.currentOperation = operation, !.operationData = Spread(s.operationData, data)]

setCurrentOperation(s, operation, data) ==
    [s EXCEPT !.currentOperation = operation, !.operationData = data]

\* a clearing that forgets the operation and keeps what it had collected
clearOperationKeepingData(s) == [s EXCEPT !.currentOperation = Null]

clearCurrentOperation(s) ==
    [s EXCEPT !.currentOperation = Null, !.operationData = EmptyObj]

\* the handlers pass the session's own operationData object, already mutated
\* in place, so the mutation is kept also when no operation is active
updateOperationData(s, data) ==
    IF s.currentOperation # Null
    THEN [s EXCEPT !.operationData = Spread(s.operationData, data)]
    ELSE s

setNetwork(s, network) == [s EXCEPT !.network = network]

\* operationData.k = v on the session's own object
SetField(s, k, v) == [s EXCEPT !.operationData = Put(s.operationData, k, v)]

-----------------------------------------------------------------------------
(* utils/dataHashing.js and utils/validation.js *)

DataHashingExports ==
    { "hashPreregisteredUsername", "hashDispersePaymentUsersToPay",
      "generateRandomNonce", "generateMultipleNonces", "isValidAddress",
      "isValidUsername", "isValidAmount", "isValidPriorityFee",
      "isValidPriority", "formatAmount", "parseAmount" }

isValidAddress(t) == EthersIsAddress(t)

\* dataHashing.js: the regular expression is applied to username.trim()
isValidUsername(t) == t # "" /\ IsString(t) /\ MatchesUsernameRegex(Trim(t))

isValidAmount(t) == IsString(t) /\ ParseFloat(t) # NaN /\ ParseFloat(t) > 0

isValidPriorityFee(t) == IsString(t) /\ ParseFloat(t) # NaN /\ ParseFloat(t) >= 0

isValidPrivateKey(t) == IsString(t) /\ MatchesPrivateKey(t)

-----------------------------------------------------------------------------
(* Results of a handler: the session it leaves, the message it sends and   *)
(* the collaborator calls it made, in order.                               *)

Out(s, reply, events) == [s |-> s, reply |-> reply, events |-> events]

-----------------------------------------------------------------------------
(* The collaborators' answers to one handler run: env.rpc is what the      *)
(* ledger call does ("value": it returns env.ledger), env.rnd the value    *)
(* the random source would return, env.sign whether the signing primitive  *)
(* succeeds.                                                               *)

RpcOutcomes == {"value", "undefined", "error"}
RandomValues == {0, 7}
LedgerValues == 0..MaxLedgerNonce
\* a ledger call that fails or answers undefined carries no value
Envs ==
    { e \in [rpc : RpcOutcomes, ledger : LedgerValues, rnd : RandomValues, sign : BOOLEAN] :
          e.rpc # "value" => e.ledger = 0 }
\* the answers the faucet's transaction can consume
FaucetEnvs == { e \in Envs : e.ledger = 0 /\ e.rnd = 0 /\ ~e.sign }
\* the answers a nonce selection can consume
NonceEnvs == { e \in Envs : ~e.sign }

\* a handler threw into the listener's catch block
Thrown(s) == Out(s, "error_occurred", <<>>)

\* updateOperationData(userId, operationData) with the session's own object
Save(s) == updateOperationData(s, s.operationData)

-----------------------------------------------------------------------------
(* handlers/messageHandlers.js: single payment *)

handleSinglePaymentRecipient(s, text) ==
    LET recipient == Trim(text)
        recipientType == Get(s.operationData, "recipientType")
    IN  IF ~IsString(text) THEN Thrown(s)
        ELSE IF recipientType = "address" /\ ~isValidAddress(recipient)
        THEN Out(s, "invalid_address", <<>>)
        ELSE IF recipientType = "username" /\ ~isValidUsername(recipient)
        THEN Out(s, "invalid_username", <<>>)
        ELSE Out(Save(SetField(SetField(s, "recipient", recipient), "step", "token_address")),
                 "recipient_set", <<>>)

handleSinglePaymentTokenAddress(s, text) ==
    LET tokenAddress == Trim(text)
    IN  IF ~IsString(text) THEN Thrown(s)
        ELSE IF ~isValidAddress(tokenAddress)
        THEN Out(s, "invalid_token_address", <<>>)
        ELSE Out(Save(SetField(SetField(s, "tokenAddress", tokenAddress), "step", "amount")),
                 "token_address_set", <<>>)

\* the amount step without its validation: whatever was typed is stored
storeAmountUnchecked(s, text) ==
    IF ~IsString(text) THEN Thrown(s)
    ELSE Out(Save(SetField(SetField(s, "amount", Trim(text)), "step", "priority_fee")),
             "amount_set", <<>>)

handleSinglePaymentAmount(s, text) ==
    LET amount == Trim(text)
    IN  IF ~IsString(text) THEN Thrown(s)
        ELSE IF ~isValidAmount(amount)
        THEN Out(s, "invalid_amount", <<>>)
        ELSE Out(Save(SetField(SetField(s, "amount", amount), "step", "priority_fee")),
                 "amount_set", <<>>)

handleSinglePaymentPriorityFee(s, text) ==
    LET priorityFee == Trim(text)
    IN  IF ~IsString(text) THEN Thrown(s)
        ELSE IF ~isValidPriorityFee(priorityFee)
        THEN Out(s, "invalid_priority_fee", <<>>)
        ELSE Out(Save(SetField(SetField(s, "priorityFee", priorityFee), "step", "priority")),
                 "priority_fee_set", <<>>)

\* a numeric text is stored with BigInt(text), which throws on a fraction;
\* any other text asks constructMessage's generateRandomNonce, which calls
\* the generateMersenneTwisterNonce that dataHashing.js does not export
handleSinglePaymentNonce(s, text) ==
    LET nonce == Trim(text)
    IN  IF ~IsString(text) THEN Thrown(s)
        ELSE IF nonce # "" /\ ParseFloat(nonce) # NaN
        THEN IF IsIntegerLiteral(nonce)
             THEN Out(Save(SetField(SetField(s, "nonce", ParseInt(nonce)), "step", "priority")),
                      "nonce_set", <<>>)
             ELSE Thrown(s)
        ELSE IF "generateMersenneTwisterNonce" \in DataHashingExports
        THEN Out(Save(SetField(SetField(s, "nonce", 7), "step", "priority")),
                 "nonce_set", <<"random_source">>)
        ELSE Thrown(s)

handleSinglePaymentMessage(s, text) ==
    LET step == Get(s.operationData, "step")
    IN  CASE step = "recipient_type" -> Out(s, "use_buttons_recipient_type", <<>>)
          [] step = "recipient" -> handleSinglePaymentRecipient(s, text)
          [] step = "token_address" -> handleSinglePaymentTokenAddress(s, text)
          [] step = "amount" -> handleSinglePaymentAmount(s, text)
          [] step = "priority_fee" -> handleSinglePaymentPriorityFee(s, text)
          [] step = "nonce" -> handleSinglePaymentNonce(s, text)
          [] OTHER -> Out(clearCurrentOperation(s), "invalid_step", <<>>)

-----------------------------------------------------------------------------
(* handlers/messageHandlers.js: disperse payment.  operationData.recipients *)
(* is [arr, undef]: arr the array's elements, undef the element stored      *)
(* under the property "undefined" when currentRecipient was never set.      *)

NoRecipients == [arr |-> <<>>, undef |-> <<>>]

CurrentRecipientEntry(od) ==
    LET rs == IF Has(od, "recipients") THEN od["recipients"] ELSE NoRecipients
    IN  IF Has(od, "currentRecipient")
        THEN IF od["currentRecipient"] + 1 <= Len(rs.arr)
             THEN <<rs.arr[od["currentRecipient"] + 1]>>
             ELSE <<>>
        ELSE rs.undef

\* recipients[currentRecipient] = entry
StoreRecipientEntry(od, entry) ==
    LET rs == IF Has(od, "recipients") THEN od["recipients"] ELSE NoRecipients
    IN  IF Has(od, "currentRecipient")
        THEN LET i == od["currentRecipient"] + 1
             IN  IF i <= Len(rs.arr)
                 THEN Put(od, "recipients", [rs EXCEPT !.arr[i] = entry])
                 ELSE Put(od, "recipients", [rs EXCEPT !.arr = Append(rs.arr, entry)])
        ELSE Put(od, "recipients", [rs EXCEPT !.undef = <<entry>>])

handleDispersePaymentRecipientInfo(s, text) ==
    LET od == s.operationData
        old == IF CurrentRecipientEntry(od) = <<>> THEN EmptyObj
               ELSE CurrentRecipientEntry(od)[1]
        asUsername == Put(Put(old, "username", Trim(text)), "address", Null)
        asAddress == Put(Put(old, "address", Trim(text)), "username", Null)
        store(entry) ==
            LET s1 == [s EXCEPT !.operationData = StoreRecipientEntry(od, entry)]
            IN  Out(Save(SetField(s1, "step", "recipient_amount")),
                    "ask_recipient_amount", <<>>)
    IN  IF Get(od, "recipientType") = "username"
        THEN IF IsString(text) THEN store(asUsername)
             \* text.trim() throws after the empty entry has been created
             ELSE Thrown([s EXCEPT !.operationData = StoreRecipientEntry(od, old)])
        ELSE IF ~IsString(text) THEN Thrown(s)
        ELSE IF ~isValidAddress(Trim(text)) THEN Out(s, "invalid_address", <<>>)
        ELSE store(asAddress)

\* the prompt for the next recipient uses createRecipientTypeMenu, which
\* messageHandlers.js does not import: the session is saved, then the send throws
handleDispersePaymentRecipientAmount(s, text) ==
    LET od == s.operationData
        amount == ParseFloat(Trim(text))
        entry == CurrentRecipientEntry(od)
        s1 == [s EXCEPT !.operationData =
                   StoreRecipientEntry(od, Put(entry[1], "amount", amount))]
    IN  IF ~IsString(text) THEN Thrown(s)
        ELSE IF amount = NaN \/ amount <= 0 THEN Out(s, "invalid_amount", <<>>)
        ELSE IF entry = <<>> THEN Thrown(s)
        ELSE IF Has(od, "currentRecipient") /\ Has(od, "recipientCount")
                /\ od["currentRecipient"] + 1 < od["recipientCount"]
        THEN Out(Save(SetField(SetField(s1, "currentRecipient", od["currentRecipient"] + 1),
                               "step", "recipient_info")),
                 "error_occurred", <<>>)
        ELSE Out(Save(SetField(s1, "step", "token_address")), "ask_token_address", <<>>)

handleDispersePaymentTokenAddress(s, text) ==
    IF ~IsString(text) THEN Thrown(s)
    ELSE IF ~isValidAddress(Trim(text)) THEN Out(s, "invalid_token_address", <<>>)
    ELSE Out(Save(SetField(SetField(s, "tokenAddress", Trim(text)), "step", "total_amount")),
             "ask_total_amount", <<>>)

handleDispersePaymentTotalAmount(s, text) ==
    LET amount == ParseFloat(Trim(text))
    IN  IF ~IsString(text) THEN Thrown(s)
        ELSE IF amount = NaN \/ amount <= 0 THEN Out(s, "invalid_amount", <<>>)
        ELSE Out(Save(SetField(SetField(s, "totalAmount", amount), "step", "priority_fee")),
                 "ask_priority_fee", <<>>)

handleDispersePaymentPriorityFee(s, text) ==
    LET fee == ParseFloat(Trim(text))
    IN  IF ~IsString(text) THEN Thrown(s)
        ELSE IF fee = NaN \/ fee < 0 THEN Out(s, "invalid_priority_fee", <<>>)
        ELSE Out(Save(SetField(SetField(s, "priorityFee", fee), "step", "executor_address")),
                 "ask_executor_address", <<>>)

handleDispersePaymentExecutorAddress(s, text) ==
    LET executorAddress == Trim(text)
    IN  IF ~IsString(text) THEN Thrown(s)
        ELSE IF executorAddress # "" /\ ~isValidAddress(executorAddress)
        THEN Out(s, "invalid_executor_address", <<>>)
        ELSE Out(Save(SetField(SetField(s, "executorAddress",
                                        IF executorAddress = "" THEN Null ELSE executorAddress),
                               "step", "priority")),
                 "executor_address_set", <<>>)

\* an empty text asks dataHashing's generateMersenneTwisterNonce, which is
\* not exported
handleDispersePaymentNonce(s, text) ==
    IF ~IsString(text) THEN Thrown(s)
    ELSE IF Trim(text) = ""
    THEN IF "generateMersenneTwisterNonce" \in DataHashingExports
         THEN Out(Save(SetField(SetField(s, "nonce", 7), "step", "priority")),
                  "ask_priority", <<"random_source">>)
         ELSE Thrown(s)
    ELSE IF ParseInt(Trim(text)) = NaN \/ ParseInt(Trim(text)) < 0
    THEN Out(s, "invalid_nonce", <<>>)
    ELSE Out(Save(SetField(SetField(s, "nonce", ParseInt(Trim(text))), "step", "priority")),
             "ask_priority", <<>>)

handleDispersePaymentMessage(s, text) ==
    LET step == Get(s.operationData, "step")
    IN  CASE step = "recipient_count" -> Out(s, "use_buttons_recipient_count", <<>>)
          [] step = "recipient_info" -> handleDispersePaymentRecipientInfo(s, text)
          [] step = "recipient_amount" -> handleDispersePaymentRecipientAmount(s, text)
          [] step = "token_address" -> handleDispersePaymentTokenAddress(s, text)
          [] step = "total_amount" -> handleDispersePaymentTotalAmount(s, text)
          [] step = "priority_fee" -> handleDispersePaymentPriorityFee(s, text)
          [] step = "executor_address" -> handleDispersePaymentExecutorAddress(s, text)
          [] step = "nonce" -> handleDispersePaymentNonce(s, text)
          [] OTHER -> Out(clearCurrentOperation(s), "invalid_step", <<>>)

-----------------------------------------------------------------------------
(* handlers/messageHandlers.js: the other operations *)

handleContractSetup(s, text) ==
    IF ~IsString(text) THEN Out(s, "error_setting_contract", <<>>)
    ELSE IF ~isValidAddress(Trim(text)) THEN Out(s, "invalid_contract_address", <<>>)
    ELSE Out(clearCurrentOperation(
                 updateUserSession(s, [evvmContractAddress |-> Trim(text)])),
             "contract_address_set", <<>>)

handleWalletConnection(s, text) ==
    IF ~isValidPrivateKey(text) THEN Out(s, "invalid_private_key", <<>>)
    ELSE Out(clearCurrentOperation(
                 setWalletWithPrivateKey(s, [address |-> AddressOf(text), privateKey |-> text])),
             "wallet_connected", <<>>)

\* register_username, check_username and update_username
handleUsernameMessage(s, text) ==
    IF ~IsString(text) THEN Out(s, "error_username", <<>>)
    ELSE IF ~isValidUsername(Trim(text)) THEN Out(s, "invalid_username", <<>>)
    ELSE Out(clearCurrentOperation(s), "username_not_implemented", <<>>)

handleGoldenStakingMessage(s, text) ==
    Out(clearCurrentOperation(s), "golden_staking_not_implemented", <<>>)

handlePresaleStakingMessage(s, text) ==
    Out(clearCurrentOperation(s), "presale_staking_not_implemented", <<>>)

handleFaucetTokenMessage(s, text, env) ==
    IF ~IsString(text) THEN Out(clearCurrentOperation(s), "error_adding_balance", <<>>)
    ELSE IF ~isValidAddress(Trim(text)) THEN Out(s, "invalid_token_address", <<>>)
    ELSE IF ~s.wallet.connected \/ s.wallet.privateKey = Null
    THEN Out(clearCurrentOperation(s), "wallet_not_connected", <<>>)
    ELSE IF s.evvmContractAddress = Undefined
    THEN Out(clearCurrentOperation(s), "contract_not_set", <<>>)
    ELSE IF env.rpc = "value"
    THEN Out(clearCurrentOperation(s), "balance_added", <<"add_balance">>)
    ELSE Out(clearCurrentOperation(s), "error_adding_balance", <<"add_balance">>)

handleOperationMessage(s, text, env) ==
    LET operation == s.currentOperation
    IN  CASE operation = "setup_contract" -> handleContractSetup(s, text)
          [] operation = "connect_wallet" -> handleWalletConnection(s, text)
          [] operation \in {"register_username", "check_username", "update_username"} ->
                 handleUsernameMessage(s, text)
          [] operation = "single_payment" -> handleSinglePaymentMessage(s, text)
          [] operation = "disperse_payment" -> handleDispersePaymentMessage(s, text)
          [] operation = "golden_staking" -> handleGoldenStakingMessage(s, text)
          [] operation = "presale_staking" -> handlePresaleStakingMessage(s, text)
          [] operation = "faucet_token" -> handleFaucetTokenMessage(s, text, env)
          [] OTHER -> Out(clearCurrentOperation(s), "unknown_operation", <<>>)

\* a listener that dispatches without looking whether an operation is active
dispatchUnconditionally(s, text, env) == handleOperationMessage(s, text, env)

\* the "message" listener, for a text that is no command and a user with a session
setupMessageHandlers(s, text, env) ==
    IF s.currentOperation # Null
    THEN handleOperationMessage(s, text, env)
    ELSE Out(s, "use_menu", <<>>)

-----------------------------------------------------------------------------
(* utils/walletUtils.js and utils/signatureUtils.js: nonce selection *)

\* a selector that answers from a remembered value and asks nobody
cachedSyncNonce(env) == [ok |-> TRUE, val |-> 1, events |-> <<>>]

\* the ledger call is issued once; an answer of 0 is refused like a missing one
getNextCurrentSyncNonce(env) ==
    IF env.rpc = "value" /\ env.ledger # 0
    THEN [ok |-> TRUE, val |-> env.ledger, events |-> <<"ledger_query">>]
    ELSE [ok |-> FALSE, val |-> 0, events |-> <<"ledger_query">>]

\* signatureUtils.js imports generateMersenneTwisterNonce from dataHashing.js
generateMersenneTwisterNonce(env) ==
    IF "generateMersenneTwisterNonce" \in DataHashingExports
    THEN [ok |-> TRUE, val |-> env.rnd, events |-> <<"random_source">>]
    ELSE [ok |-> FALSE, val |-> 0, events |-> <<>>]

generateNonceByPriority(priority, env) ==
    IF priority = Undefined
    THEN [ok |-> FALSE, val |-> 0, events |-> <<>>]
    ELSE IF priority = "high"
    THEN getNextCurrentSyncNonce(env)
    ELSE LET r == generateMersenneTwisterNonce(env)
         IN  IF r.ok /\ r.val = 0
             THEN [ok |-> FALSE, val |-> 0, events |-> r.events]
             ELSE r

-----------------------------------------------------------------------------
(* utils/constructMessage.js *)

\* !x for a number
FalsyNumber(n) == n = 0 \/ n = NaN
\* !x for a string, null or undefined
FalsyString(x) == x \in {Undefined, Null, ""}

\* recipient.startsWith("0x") && recipient.length === 42
IsAddressShaped(t) == t \in {AddrA, ZeroAddress}

\* crypto.createHash("sha256").update(text).digest("hex"), read as a BigInt
Sha256(text) ==
    CASE text = "alice" -> "sha256(alice)"
      [] text = "bob_123" -> "sha256(bob_123)"
      [] text = "" -> "sha256()"
      [] OTHER -> "sha256(other)"

hashPreregisteredUsername(username) ==
    IF FalsyString(username) \/ ~IsString(username)
    THEN Err("Username must be a non-empty string")
    ELSE Ok(Sha256(ToLowerCase(Trim(username))))

\* ethers.parseEther of a decimal in thousandths: the same amount in wei
parseEther(n) == <<"wei", n, "e15">>
\* BigInt(n)
BigIntOf(n) == <<"bigint", n>>

\* the message is a JavaScript array: it has elements and no property "type"
buildMessageSignedForPay(params) ==
    IF FalsyString(params.from) \/ FalsyString(params.token) \/ FalsyNumber(params.amount)
       \/ FalsyNumber(params.nonce) \/ FalsyNumber(params.priorityFee)
    THEN Err("Missing required parameters for payment signature")
    ELSE Ok([array |-> << 0, "pay",
                          IF FalsyString(params.to_address) THEN ZeroAddress
                          ELSE params.to_address,
                          params.token, params.amount, params.priorityFee, params.nonce,
                          params.priority,
                          IF FalsyString(params.executor) THEN ZeroAddress
                          ELSE params.executor >>])

RecipientMissesTarget(r) == FalsyString(Get(r, "address")) /\ FalsyString(Get(r, "username"))
RecipientMissesAmount(r) == ~Has(r, "amount") \/ FalsyNumber(r["amount"])

buildMessageSignedForDispersePay(params) ==
    IF params.recipients = <<>>
    THEN Err("Recipients array is required for disperse payment")
    ELSE IF FalsyString(params.tokenAddress) \/ FalsyNumber(params.totalAmount)
            \/ FalsyNumber(params.priorityFee) \/ FalsyNumber(params.nonce)
            \/ FalsyString(params.priority)
    THEN Err("Missing required parameters for disperse payment signature")
    ELSE IF \E i \in 1..Len(params.recipients) : RecipientMissesTarget(params.recipients[i])
    THEN Err("Recipient must have either address or username")
    ELSE IF \E i \in 1..Len(params.recipients) : RecipientMissesAmount(params.recipients[i])
    THEN Err("Recipient must have an amount")
    ELSE Ok([ type |-> "disperse_payment",
              network |-> params.network,
              recipients |->
                  [i \in 1..Len(params.recipients) |->
                      LET r == params.recipients[i]
                      IN  [ address |-> IF FalsyString(Get(r, "address")) THEN Null
                                        ELSE r["address"],
                            username |-> IF FalsyString(Get(r, "username")) THEN Null
                                         ELSE IF FalsyString(Get(r, "address"))
                                         THEN hashPreregisteredUsername(r["username"]).val
                                         ELSE r["username"],
                            amount |-> parseEther(r["amount"]) ]],
              tokenAddress |-> params.tokenAddress,
              totalAmount |-> parseEther(params.totalAmount),
              priorityFee |-> parseEther(params.priorityFee),
              nonce |-> BigIntOf(params.nonce),
              priority |-> ToLowerCase(params.priority),
              executorAddress |-> IF FalsyString(params.executorAddress) THEN Null
                                  ELSE params.executorAddress,
              timestamp |-> now ])

IsAction(action) == ToLowerCase(action) \in {"stake", "unstake"}

buildMessageSignedForPresaleStaking(params) ==
    IF FalsyString(params.action) \/ FalsyString(params.stakingAddress)
       \/ FalsyNumber(params.amount) \/ FalsyNumber(params.evvmNonce)
       \/ FalsyNumber(params.stakingNonce) \/ FalsyNumber(params.priorityFee)
       \/ FalsyString(params.priority)
    THEN Err("Missing required parameters for presale staking signature")
    ELSE IF ~IsAction(params.action) THEN Err("Action must be either stake or unstake")
    ELSE Ok([ type |-> "presale_staking",
              network |-> params.network,
              action |-> ToLowerCase(params.action),
              stakingAddress |-> params.stakingAddress,
              amount |-> parseEther(params.amount),
              evvmNonce |-> BigIntOf(params.evvmNonce),
              stakingNonce |-> BigIntOf(params.stakingNonce),
              priorityFee |-> parseEther(params.priorityFee),
              priority |-> ToLowerCase(params.priority),
              timestamp |-> now ])

buildMessageSignedForPublicStaking(params) ==
    IF FalsyString(params.action) \/ FalsyString(params.stakingAddress)
       \/ FalsyNumber(params.amount) \/ FalsyNumber(params.nonce)
       \/ FalsyNumber(params.priorityFee) \/ FalsyString(params.priority)
    THEN Err("Missing required parameters for public staking signature")
    ELSE IF ~IsAction(params.action) THEN Err("Action must be either stake or unstake")
    ELSE Ok([ type |-> "public_staking",
              network |-> params.network,
              action |-> ToLowerCase(params.action),
              stakingAddress |-> params.stakingAddress,
              amount |-> parseEther(params.amount),
              nonce |-> BigIntOf(params.nonce),
              priorityFee |-> parseEther(params.priorityFee),
              priority |-> ToLowerCase(params.priority),
              timestamp |-> now ])

MessageType(message) == IF "type" \in DOMAIN message THEN message.type ELSE Undefined

TypeSchema(type) ==
    CASE type = "payment" ->
             <<"type", "network", "recipient", "tokenAddress", "amount", "nonce",
               "priorityFee", "priority", "timestamp">>
      [] type = "disperse_payment" ->
             <<"type", "network", "recipients", "tokenAddress", "totalAmount",
               "priorityFee", "nonce", "priority", "executorAddress", "timestamp">>
      [] type = "public_staking" ->
             <<"type", "network", "action", "stakingAddress", "amount", "nonce",
               "priorityFee", "priority", "timestamp">>
      [] type = "presale_staking" ->
             <<"type", "network", "action", "stakingAddress", "amount", "nonce",
               "priorityFee", "priority", "timestamp", "stakingNonce">>
      [] OTHER -> <<>>

createTypedData(message, domain) ==
    IF MessageType(message) \in {"payment", "disperse_payment", "presale_staking", "public_staking"}
    THEN Ok([ domain |-> domain,
              types |-> TypeSchema(MessageType(message)),
              primaryType |-> "Message",
              message |-> message ])
    ELSE Err("Unsupported message type")

ChainId(network) == IF network = "ethereum" THEN "11155111" ELSE "421614"

-----------------------------------------------------------------------------
(* utils/signatureUtils.js: generatePaymentSignature *)

ParseIntField(v) == IF v = Undefined THEN NaN ELSE ParseInt(v)

Failed(events) == [ok |-> FALSE, val |-> <<>>, events |-> events]

\* the signatureData object of generatePaymentSignature
paymentSignatureData(address, params, nonce) ==
    LET isUsingUsername == ~IsAddressShaped(params.recipient)
    IN  [ from |-> address,
          to_address |-> IF isUsingUsername THEN ZeroAddress ELSE params.recipient,
          to_identity |-> IF isUsingUsername THEN params.recipient ELSE "",
          token |-> params.tokenAddress,
          amount |-> ParseIntField(params.amount),
          priorityFee |-> ParseIntField(params.priorityFee),
          nonce |-> nonce,
          priority |-> (params.priority = "high"),
          executor |-> ZeroAddress ]

generatePaymentSignature(privateKey, params, network, env) ==
    LET address == AddressOf(privateKey)
        nonce == generateNonceByPriority(params.priority, env)
        signatureData == paymentSignatureData(address, params, nonce.val)
        message == buildMessageSignedForPay(signatureData)
        domain == [ name |-> "EVVM Signature Constructor",
                    version |-> "1",
                    chainId |-> ChainId(network),
                    verifyingContract |->
                        IF FalsyString(params.evvmContractAddress) THEN ZeroAddress
                        ELSE params.evvmContractAddress ]
        typedData == createTypedData(message.val, domain)
    IN  IF address = Undefined THEN Failed(<<>>)
        ELSE IF ~nonce.ok THEN Failed(nonce.events)
        ELSE IF params.recipient = Undefined THEN Failed(nonce.events)
        ELSE IF ~message.ok THEN Failed(nonce.events \o <<"build_message">>)
        ELSE IF ~typedData.ok
        THEN Failed(nonce.events \o <<"build_message", "create_typed_data">>)
        ELSE IF ~env.sign
        THEN Failed(nonce.events \o <<"build_message", "create_typed_data", "sign">>)
        ELSE [ ok |-> TRUE,
               val |-> << [ signature |-> <<"signed", address, typedData.val>>,
                            message |-> message.val,
                            walletAddress |-> address,
                            nonce |-> nonce.val,
                            signatureData |-> signatureData ] >>,
               events |-> nonce.events \o <<"build_message", "create_typed_data", "sign">> ]

-----------------------------------------------------------------------------
(* handlers/operationHandlers.js *)

createSignatureSummary(signatureData) ==
    [ signature |-> signatureData.signature,
      message |-> signatureData.message,
      walletAddress |-> signatureData.walletAddress ]

\* runs when the priority button of a single payment is pressed
createSinglePaymentSignature(s, env) ==
    IF ~s.wallet.connected
    THEN Out(clearCurrentOperation(s), "error_creating_payment_signature", <<>>)
    ELSE LET nonce == generateNonceByPriority(Get(s.operationData, "priority"), env)
         IN  IF ~nonce.ok
             THEN Out(clearCurrentOperation(s), "error_creating_payment_signature",
                      nonce.events)
             ELSE Out(SetField(s, "nonce", nonce.val), "single_payment_ready", nonce.events)

\* String(x) of the numbers the disperse flow stores
NumberToString(n) == CASE n = 1500 -> "1.5" [] n = 0 -> "0" [] OTHER -> "NaN"

\* the text of a field of the form: the disperse flow keeps priorityFee as a
\* number, the other flows as the text the user sent
FieldText(s, k) ==
    IF ~Has(s.operationData, k) THEN Undefined
    ELSE IF s.currentOperation = "disperse_payment" THEN NumberToString(s.operationData[k])
    ELSE s.operationData[k]

\* a confirm handler that answers and drops the operation it found
signDroppingOperation(s, env) ==
    Out(clearCurrentOperation(s), "no_wallet_connected", <<>>)

signSinglePayment(s, env) ==
    IF ~s.wallet.connected \/ s.wallet.privateKey = Null
    THEN Out(s, "no_wallet_connected", <<>>)
    ELSE LET od == s.operationData
             signatureData ==
                 generatePaymentSignature(
                     s.wallet.privateKey,
                     [ recipient |-> Get(od, "recipient"),
                       tokenAddress |-> Get(od, "tokenAddress"),
                       amount |-> Get(od, "amount"),
                       priorityFee |-> FieldText(s, "priorityFee"),
                       priority |-> Get(od, "priority"),
                       evvmContractAddress |-> s.evvmContractAddress ],
                     s.network, env)
         IN  IF signatureData.ok
             THEN Out(clearCurrentOperation([s EXCEPT !.signatureData = signatureData.val]),
                      "signature_generated", signatureData.events)
             ELSE Out(clearCurrentOperation(s), "error_generating_signature",
                      signatureData.events)

\* runs when the priority button of a disperse payment is pressed
createDispersePaymentSignature(s) ==
    LET od == s.operationData
        message ==
            buildMessageSignedForDispersePay(
                [ recipients |-> IF Has(od, "recipients") THEN od["recipients"].arr ELSE <<>>,
                  tokenAddress |-> Get(od, "tokenAddress"),
                  totalAmount |-> IF Has(od, "totalAmount") THEN od["totalAmount"] ELSE NaN,
                  priorityFee |-> IF Has(od, "priorityFee") THEN od["priorityFee"] ELSE NaN,
                  nonce |-> IF Has(od, "nonce") THEN od["nonce"] ELSE NaN,
                  priority |-> Get(od, "priority"),
                  executorAddress |-> Get(od, "executorAddress"),
                  network |-> s.network ])
        domain == [ name |-> "EVVM Signature Constructor",
                    version |-> "1",
                    chainId |-> ChainId(s.network),
                    verifyingContract |-> ZeroAddress ]
    IN  IF message.ok /\ createTypedData(message.val, domain).ok
        THEN Out(s, "disperse_payment_ready", <<"build_message", "create_typed_data">>)
        ELSE Out(clearCurrentOperation(s), "error_creating_disperse_signature",
                 <<"build_message">>)

handlePrioritySelected(s, priority, env) ==
    LET s1 == Save(SetField(s, "priority", priority))
    IN  IF s1.currentOperation = "single_payment" THEN createSinglePaymentSignature(s1, env)
        ELSE IF s1.currentOperation = "disperse_payment"
        THEN createDispersePaymentSignature(s1)
        ELSE Out(s1, "none", <<>>)

handleActionSelected(s, action, stakingType) ==
    LET s1 == Save(SetField(SetField(s, "action", action), "stakingType", stakingType))
    IN  Out(Save(SetField(s1, "step", "staking_address")), "action_selected", <<>>)

-----------------------------------------------------------------------------
(* handlers/callbackHandlers.js: one operator per handler, applied to the  *)
(* session the listener obtained (created when the user had none).         *)

handleMainMenu(s) == Out(s, "main_menu", <<>>)

handleConnectWallet(s) ==
    IF s.wallet.connected THEN Out(s, "wallet_already_connected", <<>>)
    ELSE Out(setCurrentOperation(s, "connect_wallet", EmptyObj), "ask_private_key", <<>>)

handleConfirmNewWallet(s) ==
    Out(setCurrentOperation(s, "connect_wallet", EmptyObj), "ask_new_private_key", <<>>)

handleNetworkSelection(s, network) == Out(setNetwork(s, network), "network_updated", <<>>)

InitialData(step) == [step |-> step, data |-> EmptyObj]

handleSinglePayment(s) ==
    Out(setCurrentOperation(s, "single_payment", InitialData("recipient_type")),
        "ask_recipient_type", <<>>)

handleDispersePayment(s) ==
    Out(setCurrentOperation(s, "disperse_payment", InitialData("recipient_count")),
        "ask_recipient_count", <<>>)

handleGoldenStaking(s) ==
    Out(setCurrentOperation(s, "golden_staking", InitialData("action")), "ask_action", <<>>)

handlePresaleStaking(s) ==
    Out(setCurrentOperation(s, "presale_staking", InitialData("action")), "ask_action", <<>>)

handlePrioritySelection(s, priority, env) ==
    handlePrioritySelected(Save(SetField(s, "priority", priority)), priority, env)

handleActionSelection(s, action) ==
    LET s1 == Save(SetField(s, "action", action))
    IN  IF s1.currentOperation = "golden_staking" THEN handleActionSelected(s1, action, "golden")
        ELSE IF s1.currentOperation = "presale_staking"
        THEN handleActionSelected(s1, action, "presale")
        ELSE Out(s1, "none", <<>>)

handleRecipientTypeSelection(s, type) ==
    LET s1 == SetField(s, "recipientType", type)
        s2 == IF s.currentOperation = "single_payment" THEN SetField(s1, "step", "recipient")
              ELSE IF s.currentOperation = "disperse_payment"
              THEN SetField(s1, "step", "recipient_info")
              ELSE s1
    IN  Out(Save(s2), IF type = "username" THEN "ask_username" ELSE "ask_address", <<>>)

handleRecipientCountSelection(s, count) ==
    Out(Save(SetField(SetField(SetField(s, "recipientCount", count),
                               "recipients", NoRecipients),
                      "currentRecipient", 0)),
        "ask_recipient_type", <<>>)

handleConfirmSinglePayment(s, env) == signSinglePayment(s, env)

\* operationHandlers.js defines no signDispersePayment, signStaking or
\* signPresaleStaking: the call throws and the handler reports the error
handleConfirmDispersePayment(s) == Out(s, "error_processing_payment", <<>>)

handleConfirmStaking(s) == Out(s, "error_processing_staking", <<>>)

handleConfirmPresaleStaking(s) == Out(s, "error_processing_presale_staking", <<>>)

handleCancelOperation(s) == Out(clearCurrentOperation(s), "operation_cancelled", <<>>)

handleRegisterUsername(s) ==
    Out(setCurrentOperation(s, "register_username", EmptyObj), "ask_username", <<>>)

handleCheckUsername(s) ==
    Out(setCurrentOperation(s, "check_username", EmptyObj), "ask_username", <<>>)

handleUpdateUsername(s) ==
    Out(setCurrentOperation(s, "update_username", EmptyObj), "ask_username", <<>>)

handleFaucet(s) ==
    IF ~s.wallet.connected THEN Out(s, "no_wallet_connected", <<>>)
    ELSE Out(setCurrentOperation(s, "faucet_token",
                                 [wallet |-> s.wallet.address, network |-> s.network]),
             "ask_faucet_token", <<>>)

\* a handler that calls executePay whatever the session holds
executeUnchecked(s) ==
    Out([s EXCEPT !.signatureData = <<>>], "payment_executed", <<"execute_pay">>)

\* callbackHandlers.js never imports executePay: the call throws inside the try
handleExecuteSinglePayment(s) ==
    IF s.signatureData = <<>> THEN Out(s, "no_signature_data", <<>>)
    ELSE IF ~s.wallet.connected \/ s.wallet.privateKey = Null
    THEN Out(s, "wallet_not_connected", <<>>)
    ELSE IF s.evvmContractAddress = Undefined THEN Out(s, "contract_not_set", <<>>)
    ELSE Out(s, "error_executing_payment", <<>>)

-----------------------------------------------------------------------------
(* handlers/commandHandlers.js *)

\* /start
handleStart(s) ==
    IF s.evvmContractAddress = Undefined
    THEN Out(setCurrentOperation(s, "setup_contract", EmptyObj), "contract_setup_required", <<>>)
    ELSE Out(s, "welcome", <<>>)

\* /cancel, for a user with a session
handleCancel(s) ==
    Out([s EXCEPT !.currentOperation = Null, !.operationData = EmptyObj],
        "operation_cancelled", <<>>)

-----------------------------------------------------------------------------
(* The bot: every listener runs to completion on one update.  last keeps   *)
(* the update just handled, the reply sent and the collaborators' answers  *)
(* the handler consumed.                                                   *)

Range(seq) == {seq[i] : i \in 1..Len(seq)}

NoEnv == [rpc |-> "unused", ledger |-> 0, rnd |-> 0, sign |-> FALSE]

\* the collaborators' answers a handler actually consumed
Consumed(env, events) ==
    [ rpc |-> IF {"ledger_query", "add_balance"} \cap Range(events) # {} THEN env.rpc
              ELSE "unused",
      ledger |-> IF "ledger_query" \in Range(events) /\ env.rpc = "value" THEN env.ledger
                 ELSE 0,
      rnd |-> IF "random_source" \in Range(events) THEN env.rnd ELSE 0,
      sign |-> IF "sign" \in Range(events) THEN env.sign ELSE FALSE ]

Handled(u, kind, data, reply, events, env) ==
    [ user |-> u, kind |-> kind, data |-> data, reply |-> reply, events |-> events,
      env |-> Consumed(env, events),
      \* the operation that was active when the update arrived
      was |-> IF HasSession(u) THEN userSessions[u].currentOperation ELSE Null ]

SessionOrNew(u) == IF HasSession(u) THEN getUserSession(u) ELSE createUserSession

\* a store that writes the session under every key of the map
storeForEveryUser(u, s) == [x \in (DOMAIN userSessions) \cup {u} |-> s]

Store(u, s) ==
    [x \in (DOMAIN userSessions) \cup {u} |-> IF x = u THEN s ELSE userSessions[x]]

\* A suspended handler holds a reference to the operationData object it
\* read before its await.  attached: that object is still the session's
\* operationData; overlapped: another handler of the same user has run
\* since the suspension.
AfterHandler(u, replaced) ==
    [ i \in 1..Len(pending) |->
        IF pending[i].user = u
        THEN [pending[i] EXCEPT !.overlapped = TRUE, !.attached = @ /\ ~replaced]
        ELSE pending[i] ]

\* the buttons whose handler assigns a new object to session.operationData
\* (setCurrentOperation, clearCurrentOperation, or updateOperationData's
\* spread while an operation is active)
ReplacesData(data, pre) ==
    CASE data \in {"single_payment", "disperse_payment", "golden_staking",
                   "presale_staking", "confirm_new_wallet", "register_username",
                   "check_username", "update_username", "cancel_operation"} -> TRUE
      [] data = "connect_wallet" -> ~pre.wallet.connected
      [] data = "faucet" -> pre.wallet.connected
      [] data \in {"low", "high", "username", "address", "recipients", "stake", "unstake"} ->
             pre.currentOperation # Null
      [] data = "confirm_single_payment" ->
             pre.wallet.connected /\ pre.wallet.privateKey # Null
      [] OTHER -> FALSE

\* a callback query: the listener creates the session when there is none
Callback(u, data, out, env) ==
    /\ userSessions' = Store(u, out.s)
    /\ last' = Handled(u, "callback", data, out.reply, out.events, env)
    /\ pending' = AfterHandler(u, ReplacesData(data, SessionOrNew(u)))
    /\ UNCHANGED <<now, rateLimiter>>

Init ==
    /\ userSessions = <<>>
    /\ now = 0
    /\ last = Handled(0, "init", "", "", <<>>, NoEnv)
    /\ pending = <<>>
    /\ rateLimiter = <<>>

\* bot.on("message"): a text that is no command
Message(u) ==
    \E text \in Texts, env \in FaucetEnvs :
        /\ IF HasSession(u)
           THEN LET pre == userSessions[u]
                    out == setupMessageHandlers(getUserSession(u), text, env)
                IN  /\ userSessions' = Store(u, out.s)
                    /\ last' = Handled(u, "message", "text", out.reply, out.events, env)
                    \* every handler that saves or clears also changes the
                    \* step or the operation
                    /\ pending' = AfterHandler(u,
                           /\ pre.currentOperation # Null
                           /\ \/ out.s.currentOperation # pre.currentOperation
                              \/ Get(out.s.operationData, "step") # Get(pre.operationData, "step"))
           ELSE /\ UNCHANGED userSessions
                /\ last' = Handled(u, "message", "text", "no_active_session", <<>>, env)
                /\ pending' = AfterHandler(u, FALSE)
        /\ UNCHANGED <<now, rateLimiter>>

CmdStart(u) ==
    LET out == handleStart(SessionOrNew(u))
    IN  /\ userSessions' = Store(u, out.s)
        /\ last' = Handled(u, "command", "/start", out.reply, out.events, NoEnv)
        /\ pending' = AfterHandler(u, out.reply = "contract_setup_required")
        /\ UNCHANGED <<now, rateLimiter>>

CmdCancel(u) ==
    /\ IF HasSession(u)
       THEN userSessions' = Store(u, handleCancel(getUserSession(u)).s)
       ELSE UNCHANGED userSessions
    /\ last' = Handled(u, "command", "/cancel", "operation_cancelled", <<>>, NoEnv)
    /\ pending' = AfterHandler(u, HasSession(u))
    /\ UNCHANGED <<now, rateLimiter>>

\* a /clear that only drops the operation
clearOperationOnly(u) ==
    IF HasSession(u) THEN Store(u, handleCancel(userSessions[u]).s) ELSE userSessions

\* userSessions.delete(userId)
clearUserSession(u) == [x \in (DOMAIN userSessions) \ {u} |-> userSessions[x]]

CmdClear(u) ==
    /\ userSessions' = clearUserSession(u)
    /\ last' = Handled(u, "command", "/clear", "session_cleared", <<>>, NoEnv)
    /\ pending' = AfterHandler(u, TRUE)
    /\ UNCHANGED <<now, rateLimiter>>

BtnMainMenu(u) == Callback(u, "main_menu", handleMainMenu(SessionOrNew(u)), NoEnv)

BtnConnectWallet(u) ==
    Callback(u, "connect_wallet", handleConnectWallet(SessionOrNew(u)), NoEnv)

BtnConfirmNewWallet(u) ==
    Callback(u, "confirm_new_wallet", handleConfirmNewWallet(SessionOrNew(u)), NoEnv)

BtnNetwork(u) ==
    \E network \in {"ethereum", "arbitrum"} :
        Callback(u, network, handleNetworkSelection(SessionOrNew(u), network), NoEnv)

BtnSinglePayment(u) ==
    Callback(u, "single_payment", handleSinglePayment(SessionOrNew(u)), NoEnv)

BtnDispersePayment(u) ==
    Callback(u, "disperse_payment", handleDispersePayment(SessionOrNew(u)), NoEnv)

BtnGoldenStaking(u) ==
    Callback(u, "golden_staking", handleGoldenStaking(SessionOrNew(u)), NoEnv)

BtnPresaleStaking(u) ==
    Callback(u, "presale_staking", handlePresaleStaking(SessionOrNew(u)), NoEnv)

BtnPriority(u) ==
    \E priority \in {"low", "high"}, env \in NonceEnvs :
        Callback(u, priority, handlePrioritySelection(SessionOrNew(u), priority, env), env)

BtnAction(u) ==
    \E action \in {"stake", "unstake"} :
        Callback(u, action, handleActionSelection(SessionOrNew(u), action), NoEnv)

BtnRecipientType(u) ==
    \E type \in {"username", "address"} :
        Callback(u, type, handleRecipientTypeSelection(SessionOrNew(u), type), NoEnv)

BtnRecipientCount(u) ==
    \E count \in RecipientCounts :
        Callback(u, "recipients", handleRecipientCountSelection(SessionOrNew(u), count),
                 NoEnv)

BtnConfirmSinglePayment(u) ==
    \E env \in Envs :
        Callback(u, "confirm_single_payment",
                 handleConfirmSinglePayment(SessionOrNew(u), env), env)

BtnConfirmDispersePayment(u) ==
    Callback(u, "confirm_disperse_payment", handleConfirmDispersePayment(SessionOrNew(u)),
             NoEnv)

BtnConfirmStaking(u) ==
    Callback(u, "confirm_staking", handleConfirmStaking(SessionOrNew(u)), NoEnv)

BtnConfirmPresaleStaking(u) ==
    Callback(u, "confirm_presale_staking", handleConfirmPresaleStaking(SessionOrNew(u)),
             NoEnv)

BtnCancelOperation(u) ==
    Callback(u, "cancel_operation", handleCancelOperation(SessionOrNew(u)), NoEnv)

BtnRegisterUsername(u) ==
    Callback(u, "register_username", handleRegisterUsername(SessionOrNew(u)), NoEnv)

BtnCheckUsername(u) ==
    Callback(u, "check_username", handleCheckUsername(SessionOrNew(u)), NoEnv)

BtnUpdateUsername(u) ==
    Callback(u, "update_username", handleUpdateUsername(SessionOrNew(u)), NoEnv)

BtnFaucet(u) == Callback(u, "faucet", handleFaucet(SessionOrNew(u)), NoEnv)

BtnExecuteSinglePayment(u) ==
    Callback(u, "execute_single_payment", handleExecuteSinglePayment(SessionOrNew(u)), NoEnv)

\* Date.now() moves on
Tick ==
    /\ now < MaxTime
    /\ now' = now + 1
    /\ last' = Handled(0, "tick", "", "", <<>>, NoEnv)
    /\ UNCHANGED <<userSessions, pending, rateLimiter>>

\* 24 * 60 * 60 * 1000 ms: the clock of the model counts days
maxAge == 1

\* a sweep that also removes the session that is exactly maxAge old
cleanupAtMaxAge(sessions) ==
    [u \in {x \in DOMAIN sessions : now - sessions[x].lastActivity < maxAge} |-> sessions[u]]

cleanupOldSessions(sessions) ==
    [u \in {x \in DOMAIN sessions : ~(now - sessions[x].lastActivity > maxAge)} |-> sessions[u]]

\* setInterval(cleanupOldSessions, 60 * 60 * 1000): the timer fires between
\* two updates
Sweep ==
    /\ userSessions' = cleanupOldSessions(userSessions)
    /\ last' = Handled(0, "sweep", "",
                       IF DOMAIN cleanupOldSessions(userSessions) # DOMAIN userSessions
                       THEN "cleaned_up_old_session" ELSE "", <<>>, NoEnv)
    /\ UNCHANGED <<now, pending, rateLimiter>>

\* /help answers without looking the session up
CmdHelp(u) ==
    /\ last' = Handled(u, "command", "/help", "help", <<>>, NoEnv)
    /\ pending' = AfterHandler(u, FALSE)
    /\ UNCHANGED <<userSessions, now, rateLimiter>>

\* /status looks the session up and creates none
CmdStatus(u) ==
    /\ userSessions' = IF HasSession(u) THEN Store(u, getUserSession(u)) ELSE userSessions
    /\ last' = Handled(u, "command", "/status", "status", <<>>, NoEnv)
    /\ pending' = AfterHandler(u, FALSE)
    /\ UNCHANGED <<now, rateLimiter>>

-----------------------------------------------------------------------------
(* The listeners are async functions: the emitter does not wait for them,  *)
(* so a handler that awaits a remote call is suspended while the updates   *)
(* that arrive meanwhile are handled.  The priority button is the handler  *)
(* that writes the session after such an await: createSinglePaymentSignature *)
(* stores the nonce after the ledger call, and its catch block clears the  *)
(* operation after the error message has been sent.                        *)

Suspended(u, kind) == [user |-> u, kind |-> kind, attached |-> TRUE, overlapped |-> FALSE]

Without(seq, i) == [j \in 1..(Len(seq) - 1) |-> IF j < i THEN seq[j] ELSE seq[j + 1]]

\* the priority button, up to the await at which its handler is suspended
PriorityBegin(u) ==
    \E priority \in {"low", "high"}, env \in NonceEnvs :
        LET pre == SessionOrNew(u)
            s1 == Save(SetField(Save(SetField(pre, "priority", priority)),
                                "priority", priority))
            others == AfterHandler(u, pre.currentOperation # Null)
            suspend(kind, reply, events) ==
                /\ userSessions' = Store(u, s1)
                /\ last' = Handled(u, "callback", priority, reply, events, NoEnv)
                /\ pending' = Append(others, Suspended(u, kind))
            finish(out) ==
                /\ userSessions' = Store(u, out.s)
                /\ last' = Handled(u, "callback", priority, out.reply, out.events, env)
                /\ pending' = others
        IN  /\ Len(pending) < MaxPending
            /\ UNCHANGED <<now, rateLimiter>>
            /\ IF s1.currentOperation = "single_payment"
               THEN IF ~s1.wallet.connected
                    \* wallet is null: the read of wallet.address throws
                    THEN suspend("clear", "error_creating_payment_signature", <<>>)
                    ELSE IF priority = "high"
                    THEN suspend("nonce", "", <<"ledger_query">>)
                    ELSE IF generateNonceByPriority(priority, env).ok
                    THEN finish(createSinglePaymentSignature(s1, env))
                    ELSE suspend("clear", "error_creating_payment_signature", <<>>)
               ELSE IF s1.currentOperation = "disperse_payment"
               THEN IF createDispersePaymentSignature(s1).reply = "disperse_payment_ready"
                    THEN finish(createDispersePaymentSignature(s1))
                    ELSE suspend("clear", "error_creating_disperse_signature",
                                 <<"build_message">>)
               ELSE finish(Out(s1, "none", <<>>))

\* a suspended handler resumes: the ledger has answered, or the error
\* message has been sent
PriorityEnd ==
    \E i \in 1..Len(pending), env \in NonceEnvs :
        LET c == pending[i]
            u == c.user
            nonce == getNextCurrentSyncNonce(env)
            rest(replaced) ==
                LET others == Without(pending, i)
                IN  [ j \in 1..Len(others) |->
                        IF others[j].user = u
                        THEN [others[j] EXCEPT !.overlapped = TRUE,
                                               !.attached = @ /\ ~replaced]
                        ELSE others[j] ]
        IN  /\ UNCHANGED <<now, rateLimiter>>
            /\ IF c.kind = "nonce" /\ nonce.ok
               THEN \* operationData.nonce = nonce, on the object read before the await
                    /\ userSessions' =
                           IF HasSession(u) /\ c.attached
                           THEN Store(u, SetField(userSessions[u], "nonce", nonce.val))
                           ELSE userSessions
                    /\ last' = [Handled(u, "resume", "nonce", "single_payment_ready", <<>>, NoEnv)
                                    EXCEPT !.env = [NoEnv EXCEPT !.rpc = env.rpc,
                                                                 !.ledger = env.ledger]]
                    /\ pending' = rest(FALSE)
               ELSE IF c.kind = "nonce"
               THEN \* the catch block sends the error message and is suspended again
                    /\ UNCHANGED userSessions
                    /\ last' = Handled(u, "resume", "nonce",
                                       "error_creating_payment_signature", <<>>, NoEnv)
                    /\ pending' = [pending EXCEPT ![i].kind = "clear"]
               ELSE \* clearCurrentOperation(userId) after the message has been sent
                    \* (kind "clear": the priority handler; "sign": the confirm handler)
                    /\ userSessions' =
                           IF HasSession(u)
                           THEN Store(u, clearCurrentOperation(getUserSession(u)))
                           ELSE userSessions
                    /\ last' = Handled(u, "resume", c.kind, "", <<>>, NoEnv)
                    /\ pending' = rest(TRUE)

\* the confirm button of a single payment, up to the await of
\* generatePaymentSignature: whether the signature comes or the call throws,
\* the handler sends its message and then calls clearCurrentOperation(userId)
ConfirmBegin(u) ==
    LET pre == SessionOrNew(u)
    IN  /\ Len(pending) < MaxPending
        /\ UNCHANGED <<now, rateLimiter>>
        /\ userSessions' = Store(u, pre)
        /\ IF ~pre.wallet.connected \/ pre.wallet.privateKey = Null
           THEN /\ last' = Handled(u, "callback", "confirm_single_payment",
                                   "no_wallet_connected", <<>>, NoEnv)
                /\ pending' = AfterHandler(u, FALSE)
           ELSE /\ last' = Handled(u, "callback", "confirm_single_payment", "", <<>>, NoEnv)
                /\ pending' = Append(AfterHandler(u, FALSE), Suspended(u, "sign"))

\* a press of the execute button that an other user's signature message shows
BtnExecuteOthersPayment(u) ==
    \E target \in Chatters \ {u} :
        Callback(u, "execute_single_payment_of_other",
                 Out(SessionOrNew(u), "not_authorized", <<>>), NoEnv)

\* the updates of the session set-up, the single payment, the name service
\* and the faucet, and the first update of every other operation
Next ==
    \/ \E u \in Users : Message(u)
    \/ \E u \in Users : CmdStart(u)
    \/ \E u \in Users : CmdCancel(u)
    \/ \E u \in Users : CmdClear(u)
    \/ \E u \in Users : BtnMainMenu(u)
    \/ \E u \in Users : BtnConnectWallet(u)
    \/ \E u \in Users : BtnConfirmNewWallet(u)
    \/ \E u \in Users : BtnSinglePayment(u)
    \/ \E u \in Users : BtnDispersePayment(u)
    \/ \E u \in Users : BtnGoldenStaking(u)
    \/ \E u \in Users : BtnPresaleStaking(u)
    \/ \E u \in Users : BtnPriority(u)
    \/ \E u \in Users : BtnRecipientType(u)
    \/ \E u \in Users : BtnConfirmSinglePayment(u)
    \/ \E u \in Users : BtnConfirmDispersePayment(u)
    \/ \E u \in Users : BtnConfirmStaking(u)
    \/ \E u \in Users : BtnConfirmPresaleStaking(u)
    \/ \E u \in Users : BtnCancelOperation(u)
    \/ \E u \in Users : BtnRegisterUsername(u)
    \/ \E u \in Users : BtnCheckUsername(u)
    \/ \E u \in Users : BtnUpdateUsername(u)
    \/ \E u \in Users : BtnFaucet(u)
    \/ \E u \in Users : BtnExecuteSinglePayment(u)

Spec == Init /\ [][Next]_vars

\* the updates of the disperse payment
NextDisperse ==
    \/ \E u \in Users : Message(u)
    \/ \E u \in Users : BtnDispersePayment(u)
    \/ \E u \in Users : BtnRecipientCount(u)
    \/ \E u \in Users : BtnRecipientType(u)
    \/ \E u \in Users : BtnPriority(u)
    \/ \E u \in Users : BtnConfirmDispersePayment(u)
    \/ \E u \in Users : BtnCancelOperation(u)
    \/ \E u \in Users : CmdCancel(u)

SpecDisperse == Init /\ [][NextDisperse]_vars

\* the updates of the two staking operations
NextStaking ==
    \/ \E u \in Users : Message(u)
    \/ \E u \in Users : BtnGoldenStaking(u)
    \/ \E u \in Users : BtnPresaleStaking(u)
    \/ \E u \in Users : BtnAction(u)
    \/ \E u \in Users : BtnPriority(u)
    \/ \E u \in Users : BtnConfirmStaking(u)
    \/ \E u \in Users : BtnConfirmPresaleStaking(u)
    \/ \E u \in Users : BtnCancelOperation(u)
    \/ \E u \in Users : CmdCancel(u)
    \/ \E u \in Users : CmdStart(u)
    \/ \E u \in Users : BtnConnectWallet(u)
    \/ \E u \in Users : BtnDispersePayment(u)
    \/ \E u \in Users : BtnConfirmDispersePayment(u)

SpecStaking == Init /\ [][NextStaking]_vars

\* two users, and handlers that are suspended while others run
NextConcurrent ==
    \/ \E u \in Chatters : Message(u)
    \/ \E u \in Chatters : BtnConnectWallet(u)
    \/ \E u \in Chatters : BtnSinglePayment(u)
    \/ \E u \in Chatters : BtnCancelOperation(u)
    \/ \E u \in Chatters : CmdClear(u)
    \/ \E u \in Chatters : BtnExecuteOthersPayment(u)
    \/ \E u \in Chatters : PriorityBegin(u)
    \/ \E u \in Chatters : ConfirmBegin(u)
    \/ PriorityEnd

SpecConcurrent == Init /\ [][NextConcurrent]_vars

-----------------------------------------------------------------------------
(* The message builders as functions of their parameters *)

RecipientChoices ==
    { [address |-> AddrA, username |-> Null, amount |-> 2000],
      [address |-> Null, username |-> "bob_123", amount |-> 3000],
      [address |-> Null, username |-> Null, amount |-> 2000],
      [address |-> AddrA, username |-> Null, amount |-> 0] }

RecipientLists ==
    {<<>>} \cup {<<a>> : a \in RecipientChoices}
           \cup {<<a, b>> : a \in RecipientChoices, b \in RecipientChoices}

DisperseParams ==
    [ recipients : RecipientLists,
      tokenAddress : {AddrA, Undefined},
      totalAmount : {0, 5000, 6000},
      priorityFee : {0, 1500},
      nonce : {0, 1},
      priority : {"low", Undefined},
      executorAddress : {Null},
      network : {"ethereum"} ]

BuilderDomain ==
    [ name |-> "EVVM Signature Constructor", version |-> "1",
      chainId |-> ChainId("ethereum"), verifyingContract |-> AddrA ]

\* createTypedData applied to what a builder returned
Envelope(message) ==
    IF message.ok THEN createTypedData(message.val, BuilderDomain)
    ELSE Err("no message")

\* the record of one application: the parameters and what came back
Applied(kind, data, params, result) ==
    [ user |-> 0, kind |-> kind, data |-> data,
      reply |-> IF result.ok THEN "built" ELSE result.err,
      events |-> <<"build_message">>, env |-> NoEnv, was |-> Null,
      params |-> params, result |-> result ]

\* a caller applies buildMessageSignedForDispersePay to its parameters
BuildDispersePay ==
    \E params \in DisperseParams :
        LET message == buildMessageSignedForDispersePay(params)
        IN  /\ last' = Put(Applied("build", "disperse_payment", params, message),
                           "typedData", Envelope(message))
            /\ UNCHANGED <<userSessions, now, pending, rateLimiter>>

PaymentForms ==
    [ recipient : {AddrA, "bob_123"},
      tokenAddress : {AddrA},
      amount : {"1.5", "1"},
      priorityFee : {"0.01", "0", "1"},
      priority : {"low", "high"},
      evvmContractAddress : {AddrA},
      nonce : 1..MaxLedgerNonce ]

\* generatePaymentSignature from the signatureData object to the typed data,
\* for the form of a single payment and the nonce the generator returned
BuildPay ==
    \E params \in PaymentForms :
        LET signatureData == paymentSignatureData("0xSIGNER", params, params.nonce)
            message == buildMessageSignedForPay(signatureData)
        IN  /\ last' = Put(Put(Applied("build", "payment", params, message),
                               "typedData", Envelope(message)),
                           "signatureData", signatureData)
            /\ UNCHANGED <<userSessions, now, pending, rateLimiter>>

\* the toData array of generateDispersePaymentSignature
toData(recipients) ==
    [ i \in 1..Len(recipients) |->
        LET isUsingUsername == FalsyString(recipients[i].address)
        IN  [ to_address |-> IF isUsingUsername THEN ZeroAddress ELSE recipients[i].address,
              to_identity |-> IF isUsingUsername THEN recipients[i].username ELSE "",
              amount |-> BigIntOf(recipients[i].amount) ] ]

\* generateDispersePaymentSignature hands its signatureData (from, toData,
\* token, amount, ...) to the builder, which reads recipients, tokenAddress
\* and totalAmount from it
BuildDisperseSignature ==
    \E recipients \in RecipientLists \ {<<>>} :
        LET signatureData ==
                [ from |-> "0xSIGNER", toData |-> toData(recipients), token |-> AddrA,
                  amount |-> 5, priorityFee |-> 1, nonce |-> 1, priority |-> FALSE,
                  executor |-> ZeroAddress ]
            message ==
                IF ~Has(signatureData, "recipients")
                THEN Err("Recipients array is required for disperse payment")
                ELSE buildMessageSignedForDispersePay(signatureData)
        IN  /\ last' = Put(Applied("build", "disperse_signature", recipients, message),
                           "signatureData", signatureData)
            /\ UNCHANGED <<userSessions, now, pending, rateLimiter>>

PublicStakingParams ==
    [ action : {"stake", "Stake", "burn"},
      stakingAddress : {AddrA},
      amount : {1500},
      nonce : {0, 1},
      priorityFee : {0, 1500},
      priority : {"low", "HIGH"},
      network : {"ethereum"} ]

BuildPublicStaking ==
    \E params \in PublicStakingParams :
        LET message == buildMessageSignedForPublicStaking(params)
        IN  /\ last' = Put(Applied("build", "public_staking", params, message),
                           "typedData", Envelope(message))
            /\ UNCHANGED <<userSessions, now, pending, rateLimiter>>

PresaleStakingParams ==
    [ action : {"stake", "unstake"},
      stakingAddress : {AddrA},
      amount : {1500},
      evvmNonce : 0..MaxLedgerNonce,
      stakingNonce : 1..MaxLedgerNonce,
      priorityFee : {1500},
      priority : {"low"},
      network : {"ethereum"} ]

BuildPresaleStaking ==
    \E params \in PresaleStakingParams :
        LET message == buildMessageSignedForPresaleStaking(params)
        IN  /\ last' = Put(Applied("build", "presale_staking", params, message),
                           "typedData", Envelope(message))
            /\ UNCHANGED <<userSessions, now, pending, rateLimiter>>

\* generateDualPresaleStakingSignatures: the second call gets the same
\* parameters with nonce set to the staking nonce; its message is built
\* after the first signature, when the clock may have moved
BuildDualPresaleStaking ==
    \E params \in PresaleStakingParams, later \in {now, now + 1} :
        LET stakingParams == Put(params, "nonce", params.stakingNonce)
            evvm == buildMessageSignedForPresaleStaking(params)
            staking == buildMessageSignedForPresaleStaking(stakingParams)
        IN  /\ last' = Put(Applied("build", "dual_presale_staking", params, evvm),
                           "second",
                           IF staking.ok
                           THEN Ok([staking.val EXCEPT !.timestamp = later])
                           ELSE staking)
            /\ UNCHANGED <<userSessions, now, pending, rateLimiter>>

NonceInputs ==
    [type : {"string"}, value : {"0", "1", "-1", "1.5", "bob_123"}]
    \cup [type : {"number"}, value : {0, 1000, -1000, 1500}]     \* thousandths
    \cup [type : {"bigint"}, value : {0, 1, -1}]
    \cup [type : {"undefined"}, value : {Undefined}]

\* validation.js isValidNonce
isValidNonce(nonce) ==
    CASE nonce.type = "string" ->
             /\ ParseInt(nonce.value) # NaN /\ ParseInt(nonce.value) > 0
             /\ ParseFloat(nonce.value) # NaN /\ ParseFloat(nonce.value) % 1000 = 0
      [] nonce.type = "number" -> nonce.value % 1000 = 0 /\ nonce.value > 0
      [] nonce.type = "bigint" -> nonce.value > 0
      [] OTHER -> FALSE

\* validateInput(input, "nonce"): the input is a string
validateInputNonce(input) ==
    ~(ParseInt(Trim(input)) = NaN \/ ParseInt(Trim(input)) < 0)

ValidateNonce ==
    \E nonce \in NonceInputs :
        /\ last' = [ user |-> 0, kind |-> "validate", data |-> "nonce",
                     reply |-> IF isValidNonce(nonce) THEN "valid" ELSE "invalid",
                     events |-> <<>>, env |-> NoEnv, was |-> Null,
                     params |-> nonce,
                     validateInput |-> IF nonce.type = "string"
                                       THEN validateInputNonce(nonce.value)
                                       ELSE FALSE ]
        /\ UNCHANGED <<userSessions, now, pending, rateLimiter>>

UsernameInputs == {"Alice ", "Alice", "ALICE", "alice", "bob_123", " ", "", NoText}

HashUsername ==
    \E username \in UsernameInputs :
        /\ last' = Applied("hash", "username", username, hashPreregisteredUsername(username))
        /\ UNCHANGED <<userSessions, now, pending, rateLimiter>>

NextBuilder ==
    \/ BuildDispersePay
    \/ BuildPay
    \/ BuildDisperseSignature
    \/ BuildPublicStaking
    \/ BuildPresaleStaking
    \/ BuildDualPresaleStaking
    \/ ValidateNonce
    \/ HashUsername

SpecBuilder == Init /\ [][NextBuilder]_vars

\* the settings and the clock
NextSweep ==
    \/ \E u \in Chatters : CmdStart(u)
    \/ \E u \in Chatters : CmdHelp(u)
    \/ \E u \in Chatters : CmdStatus(u)
    \/ \E u \in Chatters : CmdCancel(u)
    \/ \E u \in Chatters : BtnMainMenu(u)
    \/ \E u \in Chatters : Message(u)
    \/ Tick
    \/ Sweep

SpecSweep == Init /\ [][NextSweep]_vars

NextSettings ==
    \/ \E u \in Users : CmdStart(u)
    \/ \E u \in Users : Message(u)
    \/ \E u \in Users : BtnNetwork(u)
    \/ \E u \in Users : BtnSinglePayment(u)
    \/ \E u \in Users : BtnRecipientType(u)
    \/ \E u \in Users : BtnCancelOperation(u)
    \/ \E u \in Users : CmdCancel(u)
    \/ Tick

SpecSettings == Init /\ [][NextSettings]_vars

-----------------------------------------------------------------------------
(* Properties of the single payment, of cancelling and of nonce selection  *)

SameData(a, b) == DOMAIN a = DOMAIN b /\ \A k \in DOMAIN a : a[k] = b[k]

step(s) == Get(s.operationData, "step")

Count(events, e) == Cardinality({i \in 1..Len(events) : events[i] = e})

\* every field of the single payment is collected and valid, and the
\* payment waits at its last step
ValidSinglePayment(s) ==
    LET od == s.operationData
    IN  /\ s.currentOperation = "single_payment"
        /\ step(s) = "priority"
        /\ Get(od, "recipientType") \in {"address", "username"}
        /\ Get(od, "recipientType") = "address" => isValidAddress(Get(od, "recipient"))
        /\ Get(od, "recipientType") = "username" => isValidUsername(Get(od, "recipient"))
        /\ isValidAddress(Get(od, "tokenAddress"))
        /\ isValidAmount(Get(od, "amount"))
        /\ isValidPriorityFee(Get(od, "priorityFee"))
        /\ Get(od, "priority") \in {"low", "high"}

\* no collaborator the handler called has failed
CollaboratorsSucceeded(l) ==
    /\ "ledger_query" \in Range(l.events) => l.env.rpc = "value"
    /\ "sign" \in Range(l.events) => l.env.sign

\* C1: a confirm press on a single payment whose fields are all collected
\* and valid, on a session with a private key and a contract address, with
\* the ledger call and the signing primitive succeeding, is answered with
\* the signature and the message, and leaves the session without operation.
C1_ConfirmedPaymentIsSigned ==
    [][\A u \in Users :
        ( /\ HasSession(u)
          /\ userSessions[u].wallet.connected
          /\ userSessions[u].wallet.privateKey # Null
          /\ userSessions[u].evvmContractAddress # Undefined
          /\ ValidSinglePayment(userSessions[u])
          /\ last'.user = u
          /\ last'.data = "confirm_single_payment"
          /\ CollaboratorsSucceeded(last') )
        => /\ last'.reply = "signature_generated"
           /\ userSessions'[u].signatureData # <<>>
           /\ userSessions'[u].currentOperation = Null]_vars

TextEntrySteps == {"recipient", "token_address", "amount", "priority_fee"}

\* the validator of the step the single payment is at refuses the text
ValidatorRejects(s, text) ==
    CASE step(s) = "recipient" ->
             \/ /\ Get(s.operationData, "recipientType") = "address"
                /\ ~isValidAddress(Trim(text))
             \/ /\ Get(s.operationData, "recipientType") = "username"
                /\ ~isValidUsername(Trim(text))
      [] step(s) = "token_address" -> ~isValidAddress(Trim(text))
      [] step(s) = "amount" -> ~isValidAmount(Trim(text))
      [] step(s) = "priority_fee" -> ~isValidPriorityFee(Trim(text))
      [] OTHER -> FALSE

\* C2: in a single payment at one of the steps recipient, token_address,
\* amount and priority_fee, a text the step's validator refuses leaves the
\* operation, the step and every collected field as they were.
C2_RejectedInputKeepsState ==
    \A u \in DOMAIN userSessions : \A text \in Texts :
        LET s == userSessions[u]
            out == setupMessageHandlers(getUserSession(u), text, NoEnv)
        IN  ( /\ s.currentOperation = "single_payment"
              /\ step(s) \in TextEntrySteps
              /\ IsString(text)
              /\ ValidatorRejects(s, text) )
            => /\ out.s.currentOperation = "single_payment"
               /\ SameData(out.s.operationData, s.operationData)

\* a refusal of an amount has just been sent, and the payment still waits
\* for the amount with the fields collected so far
C2_Witness ==
    /\ last.kind = "message" /\ last.reply = "invalid_amount"
    /\ HasSession(last.user)
    /\ userSessions[last.user].currentOperation = "single_payment"
    /\ step(userSessions[last.user]) = "amount"
    /\ Has(userSessions[last.user].operationData, "tokenAddress")

StepOrder ==
    <<"recipient_type", "recipient", "token_address", "amount", "priority_fee", "priority">>

StepIndex(st) == IF \E i \in 1..Len(StepOrder) : StepOrder[i] = st
                 THEN CHOOSE i \in 1..Len(StepOrder) : StepOrder[i] = st
                 ELSE 0

\* C3: while a single payment stays active, a text or a button (other than
\* the button that starts a new single payment) leaves the step where it
\* is or moves it to its immediate successor in the sequence recipient_type,
\* recipient, token_address, amount, priority_fee, priority.
C3_StepOnlyAdvances ==
    [][\A u \in Users :
        ( /\ HasSession(u)
          /\ u \in DOMAIN userSessions'
          /\ userSessions[u].currentOperation = "single_payment"
          /\ userSessions'[u].currentOperation = "single_payment"
          /\ last'.kind \in {"message", "callback"}
          /\ last'.data # "single_payment" )
        => LET i == StepIndex(step(userSessions[u]))
               j == StepIndex(step(userSessions'[u]))
           IN  j = i \/ j = i + 1]_vars

\* C4: when the signing attempt that a confirm press on a single payment
\* starts fails, the session keeps its operation, its step and its fields.
C4_FailedSigningKeepsOperation ==
    [][\A u \in Users :
        ( /\ HasSession(u)
          /\ userSessions[u].currentOperation = "single_payment"
          /\ last'.user = u
          /\ last'.data = "confirm_single_payment"
          /\ last'.reply = "error_generating_signature" )
        => /\ userSessions'[u].currentOperation = userSessions[u].currentOperation
           /\ SameData(userSessions'[u].operationData, userSessions[u].operationData)]_vars

CancelUpdates == {"/cancel", "cancel_operation"}

\* C5: the /cancel command and the cancel_operation button, received while
\* an operation is active, leave the session with no operation and with an
\* empty operationData.
C5_CancelClearsOperation ==
    [][\A u \in Users :
        ( /\ HasSession(u)
          /\ userSessions[u].currentOperation # Null
          /\ last'.user = u
          /\ last'.data \in CancelUpdates )
        => /\ u \in DOMAIN userSessions'
           /\ userSessions'[u].currentOperation = Null
           /\ DOMAIN userSessions'[u].operationData = {}]_vars

\* the cancel button has just ended a disperse payment
C5_Witness ==
    /\ last.data = "cancel_operation" /\ last.was = "disperse_payment"
    /\ HasSession(last.user)
    /\ userSessions[last.user].currentOperation = Null
    /\ DOMAIN userSessions[last.user].operationData = {}

\* C6: the text message that follows a cancel on a session is answered with
\* the guidance to use the menu and changes nothing in the session but
\* lastActivity; the listener does not take its error path.
C6_TextAfterCancelIsGuided ==
    [][\A u \in Users :
        ( /\ HasSession(u)
          /\ last.user = u /\ last.data \in CancelUpdates
          /\ last'.user = u /\ last'.kind = "message" )
        => /\ last'.reply = "use_menu"
           /\ u \in DOMAIN userSessions'
           /\ userSessions'[u] = [userSessions[u] EXCEPT !.lastActivity = now]]_vars

\* the guidance has just been sent, after the clock has moved, to a session
\* without operation and without fields
C6_Witness ==
    /\ last.kind = "message" /\ last.reply = "use_menu" /\ last.was = Null
    /\ now > 0
    /\ HasSession(last.user)
    /\ userSessions[last.user].currentOperation = Null
    /\ DOMAIN userSessions[last.user].operationData = {}

\* the steps that offer buttons
ButtonStep(s) ==
    \/ s.currentOperation = "single_payment" /\ step(s) \in {"recipient_type", "priority"}
    \/ s.currentOperation = "disperse_payment" /\ step(s) \in {"recipient_count", "priority"}
    \/ s.currentOperation \in {"golden_staking", "presale_staking"} /\ step(s) = "action"

GuidanceReplies == {"use_buttons_recipient_type", "use_buttons_recipient_count",
                    "use_buttons_priority", "use_buttons_action"}

\* C7: at a step that offers buttons, a text message is answered with a
\* guidance and leaves the operation, the step and the fields as they were.
C7_TextAtButtonStepIsRejected ==
    [][\A u \in Users :
        ( /\ HasSession(u)
          /\ ButtonStep(userSessions[u])
          /\ last'.user = u /\ last'.kind = "message" )
        => /\ last'.reply \in GuidanceReplies
           /\ userSessions'[u].currentOperation = userSessions[u].currentOperation
           /\ SameData(userSessions'[u].operationData, userSessions[u].operationData)]_vars

ConfirmUpdates == {"confirm_single_payment", "confirm_disperse_payment",
                   "confirm_staking", "confirm_presale_staking"}

NonceEvents == {"ledger_query", "random_source"}

\* C8: the ledger's nonce is queried and the random nonce is drawn only by
\* the handler of a confirm button.
C8_NonceOnlyAfterConfirm ==
    Range(last.events) \cap NonceEvents # {} => last.data \in ConfirmUpdates

\* C9: a signing attempt (a confirm press on a session with a private key,
\* which signSinglePayment answers by calling generatePaymentSignature)
\* with priority high queries the ledger once and draws no random nonce;
\* with priority low it draws one random nonce and does not query the ledger.
C9_OneNonceSourcePerAttempt ==
    [][\A u \in Users :
        ( /\ HasSession(u)
          /\ userSessions[u].wallet.connected
          /\ last'.user = u
          /\ last'.data = "confirm_single_payment" )
        => LET priority == Get(userSessions[u].operationData, "priority")
           IN  /\ priority = "high" =>
                      /\ Count(last'.events, "ledger_query") = 1
                      /\ Count(last'.events, "random_source") = 0
               /\ priority = "low" =>
                      /\ Count(last'.events, "random_source") = 1
                      /\ Count(last'.events, "ledger_query") = 0]_vars

\* C10: a nonce selection with priority high whose ledger call answers a
\* value succeeds with that value, 0 included: the single payment shows the
\* confirmation and keeps the value as its nonce.
C10_HighPriorityReturnsLedgerNonce ==
    ( /\ last.kind = "callback" /\ last.data = "high"
      /\ last.was = "single_payment"
      /\ "ledger_query" \in Range(last.events)
      /\ last.env.rpc = "value" )
    => /\ last.reply = "single_payment_ready"
       /\ HasSession(last.user)
       /\ Has(userSessions[last.user].operationData, "nonce")
       /\ userSessions[last.user].operationData["nonce"] = last.env.ledger

\* a priority button has just been answered for a single payment of a user
\* whose wallet is connected
PriorityAnswered(l, priority) ==
    /\ l.kind = "callback" /\ l.data = priority /\ l.was = "single_payment"
    /\ HasSession(l.user)
    /\ userSessions[l.user].wallet.connected

\* C11: a nonce selection with priority low draws one random nonce and
\* succeeds with it, whatever value the random source returns, 0 included:
\* the single payment shows the confirmation and keeps a random value as
\* its nonce.
C11_LowPriorityReturnsRandomNonce ==
    PriorityAnswered(last, "low")
    => /\ last.reply = "single_payment_ready"
       /\ Count(last.events, "random_source") = 1
       /\ Has(userSessions[last.user].operationData, "nonce")
       /\ userSessions[last.user].operationData["nonce"] \in RandomValues

C14_PrivateKeyClearedAfterUse ==
    [][\A u \in Users :
        ( /\ HasSession(u)
          /\ userSessions[u].wallet.privateKey # Null
          /\ last'.user = u
          /\ last'.data = "confirm_single_payment"
          /\ last'.reply \in {"signature_generated", "error_generating_signature"} )
        => userSessions'[u].wallet.privateKey = Null]_vars

\* C15: a session without active operation has an empty operationData.
C15_NoFieldsWithoutOperation ==
    \A u \in DOMAIN userSessions :
        userSessions[u].currentOperation = Null
        => DOMAIN userSessions[u].operationData = {}

\* the steps of the disperse payment that follow the recipients
StepsAfterRecipients ==
    {"token_address", "total_amount", "priority_fee", "executor_address", "nonce", "priority"}

\* exactly one of address and username is set, and the amount is positive
WellFormedRecipient(r) ==
    /\ FalsyString(Get(r, "address")) # FalsyString(Get(r, "username"))
    /\ Has(r, "amount")
    /\ r["amount"] # NaN /\ r["amount"] > 0

\* C16: in a disperse payment at step token_address or later, the recipients
\* list has recipientCount entries, each with exactly one of address and
\* username and with a positive amount.
C16_RecipientsCompleteAfterCollection ==
    \A u \in DOMAIN userSessions :
        LET s == userSessions[u]
            od == s.operationData
        IN  ( /\ s.currentOperation = "disperse_payment"
              /\ step(s) \in StepsAfterRecipients )
            => /\ Has(od, "recipients") /\ Has(od, "recipientCount")
               /\ Len(od["recipients"].arr) = od["recipientCount"]
               /\ \A i \in 1..Len(od["recipients"].arr) :
                      WellFormedRecipient(od["recipients"].arr[i])

\* C19: the updates of one user are handled one after another: while a
\* handler of a user is suspended at an await, no other update of that user
\* is handled.
C19_HandlersOfOneSessionDoNotInterleave ==
    \A i \in 1..Len(pending) : ~pending[i].overlapped

\* C20: the handling of an update of one user, the resumption of a suspended
\* handler included, creates, deletes and changes no session of an other
\* user.
C20_SessionsAreIndependent ==
    [][\A a \in Chatters : \A b \in Chatters \ {a} :
        last'.user = a
        => /\ (b \in DOMAIN userSessions') = (b \in DOMAIN userSessions)
           /\ b \in DOMAIN userSessions => userSessions'[b] = userSessions[b]]_vars

\* a suspended handler of user 1 has just cleared that user's operation
\* while user 2 is in the middle of a single payment
C20_Witness ==
    /\ last.user = 1 /\ last.kind = "resume" /\ last.data = "clear"
    /\ HasSession(1) /\ userSessions[1].currentOperation = Null
    /\ HasSession(2) /\ userSessions[2].currentOperation = "single_payment"
    /\ Has(userSessions[2].operationData, "priority")

RECURSIVE SumOfAmounts(_)
SumOfAmounts(recipients) ==
    IF recipients = <<>> THEN 0
    ELSE Head(recipients)["amount"] + SumOfAmounts(Tail(recipients))

\* every parameter the builder requires is there and well-formed
CompleteDisperseParams(p) ==
    /\ p.recipients # <<>>
    /\ \A i \in 1..Len(p.recipients) : WellFormedRecipient(p.recipients[i])
    /\ ~FalsyString(p.tokenAddress) /\ ~FalsyString(p.priority)
    /\ p.totalAmount > 0 /\ p.priorityFee > 0 /\ p.nonce > 0

\* C17: with every other parameter in order, the disperse payment builder
\* fails when the recipients' amounts do not add up to the total amount
\* (amounts are thousandths, so a difference is at least 0.001 and beyond
\* the tolerance of 0.000001) and succeeds when they do.
C17_BuilderChecksTotalAmount ==
    ( /\ last.kind = "build" /\ last.data = "disperse_payment"
      /\ CompleteDisperseParams(last.params) )
    => IF SumOfAmounts(last.params.recipients) = last.params.totalAmount
       THEN last.reply = "built"
       ELSE last.reply # "built"

\* a session that has what signing needs: a wallet with its key and a
\* contract address
ReadyToSign(s) ==
    /\ s.wallet.connected /\ s.wallet.privateKey # Null
    /\ s.evvmContractAddress # Undefined

ConfirmButtonOf(operation) ==
    CASE operation = "disperse_payment" -> "confirm_disperse_payment"
      [] operation = "golden_staking" -> "confirm_staking"
      [] operation = "presale_staking" -> "confirm_presale_staking"
      [] OTHER -> "none"

\* C18: on a session with wallet, key and contract address, a staking flow
\* that asks for text accepts some text and goes on (it is not dropped), and
\* a press of the confirm button of the running disperse or staking
\* operation is answered with a signature.
C18_OtherFlowsEndInSignature ==
    [][ \A u \in Users :
          (HasSession(u) /\ ReadyToSign(userSessions[u])) =>
            LET s == userSessions[u]
            IN  /\ s.currentOperation \in {"golden_staking", "presale_staking"} =>
                     \E text \in Texts, env \in FaucetEnvs :
                         setupMessageHandlers(getUserSession(u), text, env).s.currentOperation
                             = s.currentOperation
                /\ ( /\ last'.user = u /\ last'.kind = "callback"
                     /\ s.currentOperation \in
                            {"disperse_payment", "golden_staking", "presale_staking"}
                     /\ last'.data = ConfirmButtonOf(s.currentOperation) )
                   => last'.reply = "signature_generated" ]_vars

\* what a sweep does: it removes exactly the sessions whose lastActivity
\* lies more than maxAge back and leaves the others as they are
SweepRemovesExactlyTheIdle ==
    (last'.kind = "sweep" /\ now' = now) =>
        \A u \in DOMAIN userSessions :
            IF now - userSessions[u].lastActivity > maxAge
            THEN u \notin DOMAIN userSessions'
            ELSE u \in DOMAIN userSessions' /\ userSessions'[u] = userSessions[u]

\* the update just handled for u left u's session with the handling time
Refreshed(u) ==
    ( /\ last'.user = u /\ last'.kind \in {"message", "callback", "command"}
      /\ HasSession(u) /\ u \in DOMAIN userSessions' )
    => userSessions'[u].lastActivity = now

\* C21: a sweep removes a session if and only if more than 24 hours have
\* passed since its lastActivity, and every update handled for a user with a
\* session sets the session's lastActivity to the handling time.
C21_SweepAndEveryInputRefreshes ==
    [][ SweepRemovesExactlyTheIdle /\ \A u \in Chatters : Refreshed(u) ]_vars

\* C21, amended: a sweep removes a session if and only if more than 24 hours
\* have passed since its lastActivity, and every update handled for a user
\* with a session, except the /help command, sets the session's lastActivity
\* to the handling time.
C21_SweepAndSessionInputsRefresh ==
    [][ /\ SweepRemovesExactlyTheIdle
        /\ \A u \in Chatters : last'.data # "/help" => Refreshed(u) ]_vars

\* a sweep has just removed the session of user 1, idle for two days, and
\* kept that of user 2, idle for exactly one day
C21_Witness ==
    /\ last.kind = "sweep" /\ last.reply = "cleaned_up_old_session"
    /\ ~HasSession(1) /\ HasSession(2)
    /\ now - userSessions[2].lastActivity = maxAge

\* the keys of a built message; an array has its indices as keys
MessageKeys(message) ==
    IF "array" \in DOMAIN message THEN DOMAIN message.array ELSE DOMAIN message

BuiltVariant(data) == last.kind = "build" /\ last.data = data /\ last.result.ok

\* C22: for the message each of the four builders returns, createTypedData
\* selects a schema (it does not reject the message as unsupported) and the
\* field names of that schema are exactly the keys of the message.
C22_SchemaMatchesBuiltMessage ==
    \A data \in {"payment", "disperse_payment", "public_staking", "presale_staking"} :
        BuiltVariant(data) =>
            /\ last.typedData.ok
            /\ Range(last.typedData.val.types) = MessageKeys(last.result.val)

\* C23: for a single payment to an address the message is the tuple
\* (0, "pay", A, T, enc(a), enc(f), nonce, p = high, zero address) with an
\* empty to_identity, where enc keeps the fractional part: another amount
\* with a different decimal value gets a different encoding, and a fee
\* above zero gets a non-zero encoding.
C23_PayTupleKeepsFractions ==
    ( /\ last.kind = "build" /\ last.data = "payment"
      /\ last.params.recipient = AddrA ) =>
        LET p == last.params
            sd == last.signatureData
        IN  /\ last.result.ok
            /\ last.result.val.array =
                   << 0, "pay", p.recipient, p.tokenAddress, sd.amount, sd.priorityFee,
                      p.nonce, p.priority = "high", ZeroAddress >>
            /\ sd.to_identity = ""
            /\ \A other \in {"1.5", "1"} :
                   ParseFloat(other) # ParseFloat(p.amount) =>
                       paymentSignatureData("0xSIGNER", [p EXCEPT !.amount = other],
                                            p.nonce).amount # sd.amount
            /\ ParseFloat(p.priorityFee) > 0 => sd.priorityFee # 0

\* one recipient of a built disperse payment against the entry it was built
\* from
SlotsOfRecipient(entry, built) ==
    IF FalsyString(entry.address)
    THEN /\ built.username = hashPreregisteredUsername(entry.username).val
         /\ built.address = ZeroAddress
    ELSE /\ built.address = entry.address
         /\ built.username \in {Null, ""}

\* C24: a recipient given as a username is carried as the hash of the name
\* in the identity slot with the zero address in the address slot; a
\* recipient given as an address is carried in the address slot with an
\* empty identity slot; in single and in disperse payments.
C24_UsernameHashedAddressZeroed ==
    /\ (last.kind = "build" /\ last.data = "payment") =>
           IF IsAddressShaped(last.params.recipient)
           THEN /\ last.signatureData.to_address = last.params.recipient
                /\ last.signatureData.to_identity = ""
           ELSE /\ last.signatureData.to_address = ZeroAddress
                /\ last.signatureData.to_identity
                       = hashPreregisteredUsername(last.params.recipient).val
    /\ BuiltVariant("disperse_payment") =>
           \A i \in 1..Len(last.params.recipients) :
               SlotsOfRecipient(last.params.recipients[i], last.result.val.recipients[i])

NonceFields == {"nonce", "evvmNonce", "stakingNonce"}

\* C25: the two messages of the dual presale staking signature agree on
\* every field that is no nonce, and when the two nonces differ the messages
\* differ in a nonce.
C25_DualMessagesDifferByNonce ==
    ( /\ last.kind = "build" /\ last.data = "dual_presale_staking"
      /\ last.result.ok /\ last.second.ok ) =>
        LET evvm == last.result.val
            staking == last.second.val
        IN  /\ DOMAIN evvm = DOMAIN staking
            /\ \A k \in DOMAIN evvm \ NonceFields : evvm[k] = staking[k]
            /\ last.params.evvmNonce # last.params.stakingNonce =>
                   \E k \in DOMAIN evvm \cap NonceFields : evvm[k] # staking[k]

\* C26: a builder reports missing parameters only when a required field is
\* undefined, null or empty; a numeric field that is present, zero
\* included, is not reported.
C26_ZeroIsNotMissing ==
    /\ ( /\ last.kind = "build" /\ last.data = "payment"
         /\ last.reply = "Missing required parameters for payment signature" )
       => \/ FalsyString(last.signatureData.from)
          \/ FalsyString(last.signatureData.token)
    /\ ( /\ last.kind = "build" /\ last.data = "disperse_payment"
         /\ last.reply = "Missing required parameters for disperse payment signature" )
       => \/ FalsyString(last.params.tokenAddress)
          \/ FalsyString(last.params.priority)

\* a non-negative integer in one of the three forms
IsNonNegativeInteger(nonce) ==
    CASE nonce.type = "string" -> nonce.value \in {"0", "1"}
      [] nonce.type = "number" -> nonce.value >= 0 /\ nonce.value % 1000 = 0
      [] nonce.type = "bigint" -> nonce.value >= 0
      [] OTHER -> FALSE

\* C28: the nonce validator accepts exactly the non-negative integers, as
\* string, number and big integer, zero included.
C28_NonceValidatorAcceptsNonNegative ==
    (last.kind = "validate" /\ last.data = "nonce") =>
        (last.reply = "valid" <=> IsNonNegativeInteger(last.params))

\* C29: the hasher gives every non-empty string the hash of its trimmed,
\* lower-cased form and rejects an empty or non-string input.
C29_HashOfNormalizedName ==
    (last.kind = "hash" /\ last.data = "username") =>
        IF IsString(last.params) /\ last.params # ""
        THEN last.result = hashPreregisteredUsername(ToLowerCase(Trim(last.params)))
        ELSE ~last.result.ok

\* the recipients collected so far are the same in both field bags
SameRecipients(od1, od2) ==
    /\ Has(od1, "recipients") = Has(od2, "recipients")
    /\ Has(od1, "recipients") => od1["recipients"] = od2["recipients"]

\* C27: in a disperse payment at step recipient_info with recipient type
\* username, a text that fails the username validator leaves the step at
\* recipient_info and the recipients as they are.
C27_InvalidUsernameIsRejected ==
    \A u \in DOMAIN userSessions :
        LET s == userSessions[u]
        IN  ( /\ s.currentOperation = "disperse_payment"
              /\ step(s) = "recipient_info"
              /\ Get(s.operationData, "recipientType") = "username" )
            => \A text \in Texts, env \in FaucetEnvs :
                   ~isValidUsername(text) =>
                       LET out == setupMessageHandlers(getUserSession(u), text, env)
                       IN  /\ out.s.currentOperation = "disperse_payment"
                           /\ step(out.s) = "recipient_info"
                           /\ SameRecipients(out.s.operationData, s.operationData)

\* C30: the /clear command leaves the user without a session, and the text
\* message that follows it is answered with the no-session guidance and
\* creates no session.
C30_ClearRemovesSession ==
    [][ \A u \in Chatters :
          /\ (last'.user = u /\ last'.data = "/clear") => u \notin DOMAIN userSessions'
          /\ ( /\ last.user = u /\ last.data = "/clear"
               /\ last'.user = u /\ last'.kind = "message" )
             => /\ last'.reply = "no_active_session"
                /\ u \notin DOMAIN userSessions' ]_vars

\* /clear has just removed a session that had an operation under way, and
\* the other user's session is still there
C30_Witness ==
    /\ last.kind = "command" /\ last.data = "/clear" /\ last.was = "single_payment"
    /\ ~HasSession(last.user)
    /\ \E v \in Chatters \ {last.user} : HasSession(v)

\* C31: a press of the Cancel button of a step prompt (callback data
\* main_menu) on a session with an operation under way leaves the session
\* without operation, so that the text that follows is not taken as input
\* of the abandoned step.
C31_CancelButtonAbortsFlow ==
    [][ \A u \in Users :
          ( /\ HasSession(u) /\ userSessions[u].currentOperation # Null
            /\ last'.user = u /\ last'.kind = "callback" /\ last'.data = "main_menu" )
          => /\ u \in DOMAIN userSessions'
             /\ userSessions'[u].currentOperation = Null ]_vars

\* C32: when confirm is pressed right after the confirmation prompt of a
\* single payment, the nonce of the message that is built for signing is
\* the nonce the prompt showed (the one kept in the field bag).
C32_SignedNonceIsShownNonce ==
    [][ \A u \in Users :
          ( /\ HasSession(u)
            /\ userSessions[u].currentOperation = "single_payment"
            /\ Has(userSessions[u].operationData, "nonce")
            /\ last.user = u /\ last.reply = "single_payment_ready"
            /\ last'.user = u /\ last'.kind = "callback"
            /\ last'.data = "confirm_single_payment"
            /\ "create_typed_data" \in Range(last'.events) )
          => last'.env.ledger = userSessions[u].operationData["nonce"] ]_vars

StartButtons ==
    {"single_payment", "disperse_payment", "golden_staking", "presale_staking",
     "connect_wallet"}

\* C33: when a user has just started a new operation and a confirm handler
\* of that user, suspended in its signing attempt before the start, then
\* completes, the new operation, its step and its fields are as the start
\* left them.
C33_LateCompletionSparesNewOperation ==
    [][ \A u \in Chatters :
          ( /\ last.user = u /\ last.kind = "callback" /\ last.data \in StartButtons
            /\ HasSession(u) /\ userSessions[u].currentOperation = last.data
            /\ last'.user = u /\ last'.kind = "resume" /\ last'.data = "sign" )
          => /\ u \in DOMAIN userSessions'
             /\ userSessions'[u].currentOperation = userSessions[u].currentOperation
             /\ userSessions'[u].operationData = userSessions[u].operationData ]_vars

-----------------------------------------------------------------------------
(* The confirm and execute buttons of a single payment, pressed by one     *)
(* user whose signing attempts may still be in flight                      *)

NextConfirm ==
    \/ \E u \in Users : Message(u)
    \/ \E u \in Users : BtnConnectWallet(u)
    \/ \E u \in Users : BtnSinglePayment(u)
    \/ \E u \in Users : BtnRecipientType(u)
    \/ \E u \in Users : BtnPriority(u)
    \/ \E u \in Users : ConfirmBegin(u)
    \/ \E u \in Users : BtnConfirmSinglePayment(u)
    \/ \E u \in Users : CmdStart(u)
    \/ \E u \in Users : BtnExecuteSinglePayment(u)
    \/ \E u \in Users : BtnExecuteOthersPayment(u)
    \/ PriorityEnd

SpecConfirm == Init /\ [][NextConfirm]_vars

\* the session is at the end of a single payment: every text of the form
\* has been accepted and the priority has been chosen
AtEndOfSinglePayment(s) ==
    /\ s.currentOperation = "single_payment"
    /\ Get(s.operationData, "step") = "priority"
    /\ Has(s.operationData, "priority")

\* a signing attempt of user u is in flight and no other update of u has
\* been handled since its confirm press
SigningInFlight(u) ==
    \E i \in 1..Len(pending) :
        pending[i].user = u /\ pending[i].kind = "sign" /\ ~pending[i].overlapped

C36_ConfirmWithoutWalletChangesNothing ==
    [][ \A u \in Users :
          ( /\ HasSession(u)
            /\ ~userSessions[u].wallet.connected \/ userSessions[u].wallet.privateKey = Null
            /\ last'.user = u /\ last'.kind = "callback"
            /\ last'.data = "confirm_single_payment" )
          => /\ last'.reply = "no_wallet_connected"
             /\ last'.events = <<>>
             /\ u \in DOMAIN userSessions'
             /\ userSessions'[u].currentOperation = userSessions[u].currentOperation
             /\ userSessions'[u].operationData = userSessions[u].operationData
             /\ userSessions'[u].signatureData = userSessions[u].signatureData ]_vars

\* a confirm press without a wallet has just been answered, and the single
\* payment it found, with the fields entered so far, is still there
C36_Witness ==
    /\ last.kind = "callback" /\ last.data = "confirm_single_payment"
    /\ last.reply = "no_wallet_connected"
    /\ last.was = "single_payment"
    /\ HasSession(last.user)
    /\ ~userSessions[last.user].wallet.connected
    /\ userSessions[last.user].currentOperation = "single_payment"
    /\ Get(userSessions[last.user].operationData, "step") = "priority"
    /\ Has(userSessions[last.user].operationData, "priorityFee")

\* the field bag a start handler passes to setCurrentOperation: the first
\* step of the kind (connect_wallet has one prompt and records no step)
FirstData(kind) ==
    CASE kind = "single_payment" -> InitialData("recipient_type")
      [] kind = "disperse_payment" -> InitialData("recipient_count")
      [] kind = "golden_staking" -> InitialData("action")
      [] kind = "presale_staking" -> InitialData("action")
      [] OTHER -> EmptyObj

\* C37: starting single_payment, disperse_payment, golden_staking,
\* presale_staking or connect_wallet while another operation is in flight
\* replaces it: afterwards the operation kind is the new kind, the step is
\* the first step of the new kind, and the field bag holds nothing the
\* previous operation collected.  (With a wallet connected the
\* connect_wallet button asks whether to replace the wallet and starts
\* nothing.)
C37_StartReplacesOperation ==
    [][ \A u \in Users :
          ( /\ HasSession(u)
            /\ userSessions[u].currentOperation # Null
            /\ last'.user = u /\ last'.kind = "callback"
            /\ last'.data \in StartButtons
            /\ last'.reply # "wallet_already_connected" )
          => /\ u \in DOMAIN userSessions'
             /\ userSessions'[u].currentOperation = last'.data
             /\ userSessions'[u].operationData = FirstData(last'.data) ]_vars

\* a golden staking has just been started over a single payment
C37_Witness ==
    /\ last.kind = "callback" /\ last.data = "golden_staking"
    /\ last.was = "single_payment"
    /\ HasSession(last.user)
    /\ userSessions[last.user].currentOperation = "golden_staking"
    /\ userSessions[last.user].operationData = InitialData("action")

\* the execute button of the user's own signature message, and the one of
\* a message made for another user
ExecuteButtons == {"execute_single_payment", "execute_single_payment_of_other"}

\* the session of u lacks something an execution needs
CannotExecute(s) ==
    \/ s.signatureData = <<>>
    \/ ~s.wallet.connected
    \/ s.wallet.privateKey = Null
    \/ s.evvmContractAddress = Undefined

-----------------------------------------------------------------------------
(* handlers/messageHandlers.js: retryOperation and the rate limiter *)

MaxRetries == 3

\* the record of one run of a utility: its arguments and what came back
Ran(kind, params, result) ==
    [ user |-> 0, kind |-> kind, data |-> "", reply |-> "", events |-> <<>>,
      env |-> NoEnv, was |-> Null, params |-> params, result |-> result ]

\* what the k-th call of operation() does: it resolves or it throws
Outcomes == {Ok("a"), Ok("b"), Err("x"), Err("y")}

\* one call of operation(), whatever it does, and no retry
retryOnce(outcomes, maxRetries, baseDelay) ==
    IF outcomes[1].ok
    THEN [ok |-> TRUE, val |-> outcomes[1].val, calls |-> 1, delays |-> <<>>]
    ELSE [ok |-> FALSE, err |-> outcomes[1].err, calls |-> 1, delays |-> <<>>]

\* the loop of retryOperation from the given attempt on: delays are the
\* timeouts awaited so far, lastError the error caught last
RECURSIVE retryFrom(_, _, _, _, _, _)
retryFrom(attempt, outcomes, maxRetries, baseDelay, delays, lastError) ==
    IF attempt > maxRetries
    THEN [ok |-> FALSE, err |-> lastError, calls |-> attempt - 1, delays |-> delays]
    ELSE IF outcomes[attempt].ok
    THEN [ok |-> TRUE, val |-> outcomes[attempt].val, calls |-> attempt, delays |-> delays]
    ELSE IF attempt = maxRetries
    THEN [ok |-> FALSE, err |-> outcomes[attempt].err, calls |-> attempt, delays |-> delays]
    ELSE retryFrom(attempt + 1, outcomes, maxRetries, baseDelay,
                   Append(delays, baseDelay * 2 ^ (attempt - 1)), outcomes[attempt].err)

\* outcomes[k] is what the k-th call of operation() does
retryOperation(outcomes, maxRetries, baseDelay) ==
    retryFrom(1, outcomes, maxRetries, baseDelay, <<>>, Undefined)

RetryOperation ==
    \E outcomes \in [1..MaxRetries -> Outcomes], maxRetries \in 0..MaxRetries,
       baseDelay \in {500, 1000} :
        /\ last' = Ran("retry",
                       [outcomes |-> outcomes, maxRetries |-> maxRetries,
                        baseDelay |-> baseDelay],
                       retryOperation(outcomes, maxRetries, baseDelay))
        /\ UNCHANGED <<userSessions, now, pending, rateLimiter>>

NextRetry == RetryOperation

SpecRetry == Init /\ [][NextRetry]_vars

\* the calls of operation() that resolve among the first n
Successes(outcomes, n) == {k \in 1..n : outcomes[k].ok}

First(S) == CHOOSE k \in S : \A j \in S : k <= j

\* C39: retryOperation ends after at most maxRetries calls of the
\* operation; it returns the result of the first call that succeeds and
\* calls no more after it; before the call that follows the k-th failure it
\* has waited baseDelay * 2^(k-1); and after maxRetries failures it rejects
\* with the error of the last call.
C39_RetryStopsAtSuccessOrMaxRetries ==
    last.kind = "retry" =>
        LET p == last.params
            r == last.result
            won == Successes(p.outcomes, p.maxRetries)
        IN  /\ r.calls <= p.maxRetries
            /\ won # {} => /\ r.ok
                           /\ r.calls = First(won)
                           /\ r.val = p.outcomes[First(won)].val
            /\ won = {} => /\ ~r.ok
                           /\ r.calls = p.maxRetries
                           /\ p.maxRetries >= 1 => r.err = p.outcomes[p.maxRetries].err
            /\ Len(r.delays) = IF r.calls = 0 THEN 0 ELSE r.calls - 1
            /\ \A k \in 1..Len(r.delays) : r.delays[k] = p.baseDelay * 2 ^ (k - 1)

\* two calls have failed, 1000 and 2000 ms have been waited, and the third
\* call has succeeded
C39_Witness ==
    /\ last.kind = "retry"
    /\ last.params.maxRetries = 3 /\ last.params.baseDelay = 1000
    /\ ~last.params.outcomes[1].ok /\ ~last.params.outcomes[2].ok
    /\ last.params.outcomes[3].ok
    /\ last.result.ok /\ last.result.calls = 3
    /\ last.result.delays = <<1000, 2000>>

\* 5 * 60 * 1000 ms: where the limiter runs, the clock of the model counts
\* periods of five minutes
limiterMaxAge == 1

\* the (userId, operation) pairs the limiter is asked about
LimiterCalls == {<<1, "pay">>, <<1, "stake">>, <<2, "pay">>}

\* `${userId}_${operation}`
KeyOf(userId, operation) == ToString(userId) \o "_" \o operation

\* requests.filter((timestamp) => now - timestamp < windowMs)
validRequests(requests, windowMs) == SelectSeq(requests, LAMBDA t : now - t < windowMs)

\* the answer of checkRateLimit and the map it leaves
checkRateLimit(limiter, userId, operation, limit, windowMs) ==
    LET key == KeyOf(userId, operation)
        requests == IF Has(limiter, key) THEN limiter[key] ELSE <<>>
        valid == validRequests(requests, windowMs)
    IN  IF Len(valid) >= limit
        THEN [ok |-> FALSE, limiter |-> Put(limiter, key, valid)]
        ELSE [ok |-> TRUE, limiter |-> Put(limiter, key, Append(valid, now))]

\* the body of the limiter's interval timer
cleanupRateLimiter(limiter) ==
    [ key \in {k \in DOMAIN limiter : validRequests(limiter[k], limiterMaxAge) # <<>>} |->
        validRequests(limiter[key], limiterMaxAge) ]

CheckRateLimit ==
    \E call \in LimiterCalls, limit \in {1, 2}, windowMs \in {1, 2} :
        LET out == checkRateLimit(rateLimiter, call[1], call[2], limit, windowMs)
        IN  /\ rateLimiter' = out.limiter
            /\ last' = Ran("rate_limit",
                           [ userId |-> call[1], operation |-> call[2], limit |-> limit,
                             windowMs |-> windowMs ],
                           [ok |-> out.ok])
            /\ UNCHANGED <<userSessions, now, pending>>

\* setInterval(..., 60000): the timer fires between two calls
LimiterCleanup ==
    /\ rateLimiter' = cleanupRateLimiter(rateLimiter)
    /\ last' = Ran("limiter_cleanup", <<>>, [ok |-> TRUE])
    /\ UNCHANGED <<userSessions, now, pending>>

NextLimiter ==
    \/ CheckRateLimit
    \/ LimiterCleanup
    \/ Tick

SpecLimiter == Init /\ [][NextLimiter]_vars

\* the calls of the key that the map records within the window
Recorded(limiter, key, windowMs) ==
    IF Has(limiter, key) THEN validRequests(limiter[key], windowMs) ELSE <<>>

\* C40: for every key (userId, operation), limit and windowMs, a call of
\* checkRateLimit returns true only while fewer than limit calls of the key
\* have been let through within the window; a refused call consumes no
\* quota; a call leaves the other keys alone; and the periodic cleanup of
\* the limiter never lets a call through that would otherwise be refused.
C40_LimiterHoldsUnderCleanup ==
    [][ /\ last'.kind = "rate_limit" =>
              LET p == last'.params
                  key == KeyOf(p.userId, p.operation)
              IN  /\ last'.result.ok =>
                        /\ Len(Recorded(rateLimiter, key, p.windowMs)) < p.limit
                        /\ Recorded(rateLimiter', key, p.windowMs) =
                               Append(Recorded(rateLimiter, key, p.windowMs), now)
                  /\ ~last'.result.ok =>
                        /\ Len(Recorded(rateLimiter, key, p.windowMs)) >= p.limit
                        /\ Recorded(rateLimiter', key, p.windowMs) =
                               Recorded(rateLimiter, key, p.windowMs)
                  /\ \A other \in LimiterCalls :
                        KeyOf(other[1], other[2]) # key =>
                            /\ Has(rateLimiter', KeyOf(other[1], other[2]))
                                   = Has(rateLimiter, KeyOf(other[1], other[2]))
                            /\ Recorded(rateLimiter', KeyOf(other[1], other[2]), MaxTime + 1)
                                   = Recorded(rateLimiter, KeyOf(other[1], other[2]), MaxTime + 1)
        /\ last'.kind = "limiter_cleanup" =>
              \A call \in LimiterCalls, limit \in {1, 2}, windowMs \in {1, 2} :
                  checkRateLimit(rateLimiter', call[1], call[2], limit, windowMs).ok
                  => checkRateLimit(rateLimiter, call[1], call[2], limit, windowMs).ok
      ]_vars

====
